---- MODULE Spec2Model ----
(***************************************************************************)
(* load-atoms: the dataset resolution-and-caching pipeline.                *)
(*                                                                         *)
(* One catalog identifier inside one root directory.  The state is the     *)
(* on-disk cache of that identifier (metadata copy, temporary downloads,   *)
(* raw/ working directory, staged and persisted dataset, completion        *)
(* marker), the run of the processing chain, and the position of the       *)
(* single in-flight load_dataset call.  Every step of a load is one        *)
(* action, so that an external termination of the process can fall         *)
(* between any two writes.                                                 *)
(*                                                                         *)
(* Spec is the pipeline with the manifest files fetched one after another, *)
(* SpecParallel the loads of the identifier with the files fetched side by *)
(* side, SpecChain the chain interpreter on every chain and directory      *)
(* within the bounds.  SpecRebuild runs the loads over successive releases *)
(* of the entry, SpecLive states the fairness of a running load,           *)
(* SpecDispatch starts load_dataset on every kind of first argument,       *)
(* SpecConfig runs under every verbosity and debug setting, and SpecRace   *)
(* interleaves the loads of two processes.  SpecRename applies the Rename  *)
(* step to every structure sequence and mapping within the bounds, and     *)
(* SpecRotate is the rotation script of the visualisations: two scenes on  *)
(* one page, their animation frames and the mouse events on them.          *)
(***************************************************************************)
EXTENDS Integers, Sequences, FiniteSets, TLC

\* ---------------------------------------------------------------- bounds
NFiles == 2          \* files in the manifest of the dataset
MaxStructs == 2      \* structures the user's own file or list can hold
MaxVer == 3          \* minimum_load_atoms_version ranges over 0.1 .. 0.MaxVer
MaxChain == 3        \* steps in a processing chain
MaxPairs == 2        \* pairs in the mapping of a Rename step
ClockStep == 100     \* milliseconds between two instants of the page's clock
MaxTime == 400       \* the last instant of the page's clock
MaxPresses == 2      \* mousedown events on one scene

\* The running package is load-atoms 0.2.13: versions are counted in tenths.
PackageVersion == 2

\* LOAD_ATOMS_VERBOSE: 0 silent, 1 plain text, 2 rich progress (the default).
Verbosities == {0, 1, 2}
DefaultVerbosity == 2

Files == 1..NFiles
Versions == 1..MaxVer

VARIABLES
    catalogVer,  \* minimum_load_atoms_version of the catalog's DatabaseEntry
    debug,       \* LOAD_ATOMS_DEBUG
    verbose,     \* LOAD_ATOMS_VERBOSE
    catalog,     \* processing and published files of the catalog's DatabaseEntry
    peer,        \* a load of the identifier by another process, while it waits
    ren,         \* a Rename step applied on its own: what it was given and made
    page,        \* a page of a notebook showing structures: clock, scenes, scripts
    meta,        \* root/name/name.yaml: <<>> (absent) or <<version>>
    tmp,         \* temporary download of file f: "none", "partial", "good", "bad"
    raw,         \* root/name/raw/<file f> (the manifest path): same values
    work,        \* intermediates the chain writes into raw/: "none", "partial", "done"
    stage,       \* dataset being written: [st: "none"|"partial"|"full", data]
    store,       \* persisted dataset root/name/name.pkl: [st: "none"|"full", data]
    marker,      \* completion marker
    run,         \* the run of the processing chain
    pc,          \* position of the in-flight call
    call,        \* the in-flight call
    prev,        \* summary of the call that returned last
    extSince     \* what the user did to the cache since that call: "none", "raw", "other"

disk == <<meta, tmp, raw, work, stage, store, marker>>
env == <<catalogVer, debug, verbose, catalog, peer, ren, page>>
vars == <<catalogVer, debug, verbose, catalog, peer, ren, page, meta, tmp, raw, work, stage, store,
          marker, run, pc, call, prev, extSince>>

\* ------------------------------------------------------------ structures
\* The structure parser is an opaque capability: file -> sequence of structures.
\* Structure i of file f is [file |-> f, idx |-> i]; file 0 is the user's own.
ParseFile(f, n) == [i \in 1..n |-> [file |-> f, idx |-> i]]

\* The genuine manifest file f holds f structures.
StructsIn(f) == f

\* The default chain: read every file of the working directory, in order.
RECURSIVE ReadAll(_, _)
ReadAll(dir, f) ==
    IF f > NFiles THEN <<>>
    ELSE (IF dir[f] = "good" THEN ParseFile(f, StructsIn(f)) ELSE <<>>)
         \o ReadAll(dir, f + 1)

DefaultChain(dir) == ReadAll(dir, 1)

\* The persisted dataset is a serialised blob; reading deserialises it.
NoBlob == [st |-> "none", data |-> <<>>]
PartialBlob == [st |-> "partial", data |-> <<>>]
Serialise(structures) == [st |-> "full", data |-> structures]
Deserialise(blob) == blob.data

NoFiles == [f \in Files |-> "none"]

\* ------------------------------------------------------ processing steps
\* A file of a working directory: its name (stem.ext), whether the structure
\* parser accepts it, the structures it holds and, for an archive, its members.
StructureFile(f, frames) ==
    [stem |-> f, ext |-> "xyz", ok |-> TRUE, frames |-> frames, members |-> <<>>]
MalformedFile(f) ==
    [stem |-> f, ext |-> "xyz", ok |-> FALSE, frames |-> <<>>, members |-> <<>>]
TextFile(f) ==
    [stem |-> f, ext |-> "txt", ok |-> TRUE, frames |-> <<>>, members |-> <<>>]
Archive(members) ==
    [stem |-> 0, ext |-> "zip", ok |-> TRUE, frames |-> <<>>, members |-> members]

\* A file name or a glob: stem 0 and ext "*" stand for the wildcard.
Pattern(stem, ext) == [stem |-> stem, ext |-> ext]
Matches(pattern, file) ==
    /\ pattern.stem = 0 \/ pattern.stem = file.stem
    /\ pattern.ext = "*" \/ pattern.ext = file.ext

\* A step of a chain: a class name with its key-word arguments.
Step(name) ==
    [name |-> name, valid |-> TRUE, pattern |-> Pattern(0, "*"),
     steps |-> <<>>, mapping |-> <<>>]

\* The step classes. Custom runs a script of the dataset's own and is never
\* drawn here.
KnownSteps == {"UnZip", "SelectFile", "ForEachFile", "ReadASE", "Rename", "Custom"}

\* The processing key of a DatabaseEntry: absent, or a chain.
NoProcessing == [declared |-> FALSE, steps |-> <<>>]
Processing(steps) == [declared |-> TRUE, steps |-> steps]

\* Faulty variant (an entry without the key runs no step at all)
ChainAsWritten(processing) == processing.steps

\* The chain that is run: the declared one, or the default, ReadASE.
ChainOf(processing) ==
    IF processing.declared THEN processing.steps ELSE <<Step("ReadASE")>>

\* What a step works on: the working directory, the structures in flight.
Working(dir) == [dir |-> dir, seq |-> <<>>, err |-> ""]

\* UnZip: every archive of the directory gives way to its members.
RECURSIVE UnZip(_)
UnZip(dir) ==
    IF dir = <<>> THEN <<>>
    ELSE (IF Head(dir).ext = "zip" THEN Head(dir).members ELSE <<Head(dir)>>)
         \o UnZip(Tail(dir))

\* Faulty variant (a selection that keeps the whole directory)
SelectAll(dir, file) == dir

\* SelectFile: the directory is narrowed to the named file.
SelectFile(dir, file) ==
    SelectSeq(dir, LAMBDA f : f.stem = file.stem /\ f.ext = file.ext)

\* ReadASE: every file the parser recognises is read, in listing order; a
\* recognised file it rejects is a ParseError.
Recognised(file) == file.ext = "xyz"

RECURSIVE ReadFiles(_)
ReadFiles(dir) ==
    IF dir = <<>> THEN <<>>
    ELSE (IF Recognised(Head(dir)) THEN Head(dir).frames ELSE <<>>)
         \o ReadFiles(Tail(dir))

ReadASE(dir) ==
    IF \E i \in DOMAIN dir : Recognised(dir[i]) /\ ~dir[i].ok
    THEN [seq |-> <<>>, err |-> "ParseError"]
    ELSE [seq |-> ReadFiles(dir), err |-> ""]

\* Rename: the pairs of the mapping are applied to each structure, one after
\* another; a pair moves the value of old to new when the structure has old.
\* Faulty variant (a pair that keeps new when the structure has it already)
RenameKeeping(s, old, new) ==
    IF old \in DOMAIN s /\ new \notin DOMAIN s
    THEN [k \in (DOMAIN s \ {old}) \cup {new} |-> IF k = new THEN s[old] ELSE s[k]]
    ELSE s

\* Faulty variant (a pair that leaves nothing but the field it moved)
RenameOnly(s, old, new) ==
    IF old \in DOMAIN s THEN [k \in {new} |-> s[old]] ELSE s

\* Faulty variant (a pair that puts the value it overwrites under old)
RenameSwapping(s, old, new) ==
    IF old \in DOMAIN s
    THEN IF new \in DOMAIN s
         THEN [k \in DOMAIN s |-> IF k = new THEN s[old]
                                   ELSE IF k = old THEN s[new] ELSE s[k]]
         ELSE [k \in (DOMAIN s \ {old}) \cup {new} |-> IF k = new THEN s[old] ELSE s[k]]
    ELSE s

RenamePair(s, old, new) ==
    IF old \in DOMAIN s
    THEN [k \in (DOMAIN s \ {old}) \cup {new} |-> IF k = new THEN s[old] ELSE s[k]]
    ELSE s

RECURSIVE RenameFields(_, _)
RenameFields(s, mapping) ==
    IF mapping = <<>> THEN s
    ELSE RenameFields(RenamePair(s, Head(mapping)[1], Head(mapping)[2]), Tail(mapping))

Rename(seq, mapping) ==
    IF seq = <<>> THEN <<>>
    ELSE [i \in DOMAIN seq |-> RenameFields(seq[i], mapping)]

RECURSIVE RunSteps(_, _)

\* Faulty variant (a match whose steps fail is skipped)
RECURSIVE ForEachFileSkipping(_, _, _)
ForEachFileSkipping(dir, pattern, steps) ==
    IF dir = <<>> THEN [seq |-> <<>>, err |-> ""]
    ELSE LET one == IF Matches(pattern, Head(dir))
                    THEN RunSteps(steps, Working(<<Head(dir)>>))
                    ELSE Working(<<>>)
             rest == ForEachFileSkipping(Tail(dir), pattern, steps)
         IN  [seq |-> (IF one.err = "" THEN one.seq ELSE <<>>) \o rest.seq,
              err |-> ""]

\* Faulty variant (the steps of a match see the whole directory)
RECURSIVE ForEachFileShared(_, _, _, _)
ForEachFileShared(all, dir, pattern, steps) ==
    IF dir = <<>> THEN [seq |-> <<>>, err |-> ""]
    ELSE LET one == IF Matches(pattern, Head(dir))
                    THEN RunSteps(steps, Working(all))
                    ELSE Working(<<>>)
             rest == ForEachFileShared(all, Tail(dir), pattern, steps)
         IN  IF one.err # "" THEN [seq |-> <<>>, err |-> one.err]
             ELSE IF rest.err # "" THEN rest
             ELSE [seq |-> one.seq \o rest.seq, err |-> ""]

ForEachFileInDirectory(dir, pattern, steps) ==
    ForEachFileShared(dir, dir, pattern, steps)

\* ForEachFile: the steps are run on each file that matches the pattern, on
\* that file alone, in listing order; the sequences are concatenated; the
\* first match whose steps fail fails the step.
RECURSIVE ForEachFile(_, _, _)
ForEachFile(dir, pattern, steps) ==
    IF dir = <<>> THEN [seq |-> <<>>, err |-> ""]
    ELSE LET one == IF Matches(pattern, Head(dir))
                    THEN RunSteps(steps, Working(<<Head(dir)>>))
                    ELSE Working(<<>>)
             rest == ForEachFile(Tail(dir), pattern, steps)
         IN  IF one.err # "" THEN [seq |-> <<>>, err |-> one.err]
             ELSE IF rest.err # "" THEN rest
             ELSE [seq |-> one.seq \o rest.seq, err |-> ""]

\* One step applied to what the step before it left.
ApplyStep(step, st) ==
    IF step.name \notin KnownSteps THEN [st EXCEPT !.err = "UnknownStepError"]
    ELSE IF ~step.valid THEN [st EXCEPT !.err = "StepConfigError"]
    ELSE CASE step.name = "UnZip" -> [st EXCEPT !.dir = UnZip(st.dir)]
           [] step.name = "SelectFile" ->
                [st EXCEPT !.dir = SelectFile(st.dir, step.pattern)]
           [] step.name = "ForEachFile" ->
                [st EXCEPT !.seq = ForEachFile(st.dir, step.pattern, step.steps).seq,
                           !.err = ForEachFile(st.dir, step.pattern, step.steps).err]
           [] step.name = "ReadASE" ->
                [st EXCEPT !.seq = ReadASE(st.dir).seq, !.err = ReadASE(st.dir).err]
           [] step.name = "Rename" ->
                [st EXCEPT !.seq = Rename(st.seq, step.mapping)]

\* A chain of steps, run to its end or to the first step that fails.
RunSteps(steps, st) ==
    IF steps = <<>> \/ st.err # "" THEN st
    ELSE RunSteps(Tail(steps), ApplyStep(Head(steps), st))

\* The run of a chain: the chain, the directory it was given, the position
\* in the chain, what the last step left, and what each step read and left.
NoRun ==
    [status |-> "none", declared |-> FALSE, chain |-> <<>>, ip |-> 1,
     given |-> <<>>, dir |-> <<>>, seq |-> <<>>, err |-> "", result |-> <<>>,
     trace |-> <<>>, ins |-> <<>>, outs |-> <<>>]

StartRun(processing, workingDir) ==
    [NoRun EXCEPT !.status = "running", !.declared = processing.declared,
                  !.chain = ChainOf(processing),
                  !.given = workingDir, !.dir = workingDir]

\* ----------------------------------------------- chains and directories
\* The optional fields of structure i of file f: some structures have one
\* of the old names, some both, some an old name and the new one.
Info(f, i) ==
    CASE (f + i) % 3 = 2 -> [dft_energy |-> 200 + 10 * f + i]
      [] (f + i) % 3 = 0 -> [DFT_energy |-> 100 + 10 * f + i,
                             dft_energy |-> 200 + 10 * f + i]
      [] (f + i) % 3 = 1 -> [dft_energy |-> 200 + 10 * f + i,
                             energy |-> 300 + 10 * f + i]

\* What the parser makes of the genuine file f.
Frames(f) == [i \in 1..StructsIn(f) |-> ParseFile(f, StructsIn(f))[i] @@ Info(f, i)]

\* The mapping of the Rename step of a DatabaseEntry.
EnergyMapping == << <<"DFT_energy", "energy">>, <<"dft_energy", "energy">> >>

\* The steps chains are made of: the five classes, a step of an unknown
\* class, and a step whose key-word arguments do not fit its class.
StepChoices ==
    { Step("UnZip"),
      [Step("SelectFile") EXCEPT !.pattern = Pattern(NFiles, "xyz")],
      [Step("ForEachFile") EXCEPT !.pattern = Pattern(0, "xyz"),
                                  !.steps = <<Step("ReadASE")>>],
      Step("ReadASE"),
      [Step("Rename") EXCEPT !.mapping = EnergyMapping],
      Step("ReadLAMMPS"),
      [Step("SelectFile") EXCEPT !.valid = FALSE] }

RECURSIVE ChainsOfLength(_)
ChainsOfLength(n) ==
    IF n = 0 THEN {<<>>}
    ELSE {Append(c, s) : c \in ChainsOfLength(n - 1), s \in StepChoices}

Chains == UNION {ChainsOfLength(n) : n \in 0..MaxChain}

\* The directories a chain is given: files of the dataset, each a structure
\* file, a malformed one or a text file, in any listing order, loose or
\* inside one archive.
FileChoices(f) == {StructureFile(f, Frames(f)), MalformedFile(f), TextFile(f)}

RECURSIVE ListingsOf(_)
ListingsOf(files) ==
    {<<>>} \cup UNION {{<<file>> \o rest : file \in FileChoices(f),
                                          rest \in ListingsOf(files \ {f})} : f \in files}

Directories ==
    ListingsOf(Files) \cup {<<Archive(members)>> : members \in ListingsOf(Files)}

Processings == {NoProcessing} \cup {Processing(c) : c \in Chains}

\* The entries of the remote catalog a load can meet: no processing key,
\* ForEachFile over files of which the last is malformed, a step of an
\* unknown class, a step with arguments that do not fit.
Catalogs ==
    { [processing |-> NoProcessing, malformed |-> {}],
      [processing |-> Processing(<<[Step("ForEachFile") EXCEPT
                                        !.pattern = Pattern(0, "xyz"),
                                        !.steps = <<Step("ReadASE")>>]>>),
       malformed |-> {NFiles}],
      [processing |-> Processing(<<Step("ReadLAMMPS")>>), malformed |-> {}],
      [processing |-> Processing(<<[Step("SelectFile") EXCEPT !.valid = FALSE]>>),
       malformed |-> {}] }

\* The file the catalog's entry publishes as manifest file f.
Published(f) ==
    IF f \in catalog.malformed THEN MalformedFile(f)
    ELSE StructureFile(f, ParseFile(f, StructsIn(f)))

\* The working directory of a load: the manifest files that are in raw/.
RECURSIVE ListFrom(_, _)
ListFrom(dir, f) ==
    IF f > NFiles THEN <<>>
    ELSE (IF dir[f] = "good" THEN <<Published(f)>> ELSE <<>>) \o ListFrom(dir, f + 1)

WorkingDir(dir) == ListFrom(dir, 1)

\* ------------------------------------------------------------- the call
NoCall == [arg |-> "none", force |-> FALSE, netMeta |-> FALSE, netFile |-> FALSE,
           chainRan |-> FALSE, sawCorrupt |-> FALSE, startMarker |-> FALSE,
           startStore |-> NoBlob, entry |-> <<>>, next |-> 1, fetched |-> {},
           local |-> <<>>, result |-> <<>>, err |-> "", failedIn |-> "",
           corrupt |-> {}, detail |-> <<>>, given |-> <<>>,
           shown |-> "nothing", usage |-> FALSE, notices |-> 0]

\* The first argument of load_dataset, by what decides the dispatch: a list
\* of structures, or a string, which the catalog knows as this identifier,
\* as another one or not at all, and which is or is not the path of an
\* existing file or directory.
ListArgument == [kind |-> "list", names |-> "nothing", exists |-> FALSE]
StringArgument(names, exists) == [kind |-> "string", names |-> names, exists |-> exists]
Arguments ==
    {ListArgument} \cup
    {StringArgument(names, exists) : names \in {"this", "other", "nothing"},
                                     exists \in BOOLEAN}

\* The three paths of the dispatch, in the order load_dataset tries them.
TakesCatalog(arg) == arg.kind = "string" /\ (arg.names # "nothing" \/ ~arg.exists)

\* Faulty variant (every existing path is read as a file, identifier or not)
TakesPathAnyway(arg) == arg.kind = "string" /\ arg.exists

TakesPath(arg) == arg.kind = "string" /\ arg.exists /\ ~TakesCatalog(arg)
TakesList(arg) == arg.kind = "list"

\* What the user's own file holds when a call reads it: <<>> (not a structure
\* file) or <<number of structures>>.
LocalContents == {<<>>} \cup {<<n>> : n \in 1..MaxStructs}

NewCall(arg, force) ==
    [NoCall EXCEPT !.arg = arg, !.force = force,
                   !.startMarker = marker, !.startStore = store]

\* What a load from the catalog prints while it runs.
Progress ==
    CASE verbose = 0 -> "nothing"
      [] verbose = 1 -> "text"
      [] verbose = 2 -> "rich"

\* The call as the dispatch of the argument given starts it.
Dispatched(arg, route, force) ==
    [NewCall(route, force) EXCEPT
        !.given = arg,
        !.shown = IF route \in {"id", "other"} THEN Progress ELSE "nothing"]

Summary(c, outcome) ==
    [outcome |-> outcome, result |-> c.result,
     startMarker |-> c.startMarker, startStore |-> c.startStore]

NoPrev == Summary(NoCall, "none")

\* What a process loading the identifier has of its own: its position, its
\* call, its run of the chain and its temporary directory.
NoPeer == [pc |-> "idle", call |-> NoCall, run |-> NoRun, tmp |-> NoFiles]

\* No Rename step on its own, and no page shown.
NoRename == [seq |-> <<>>, mapping |-> <<>>, applied |-> 0, once |-> <<>>, twice |-> <<>>]
NoPage ==
    [now |-> 0, scenes |-> <<>>, scripts |-> <<>>, frames |-> <<>>,
     event |-> [kind |-> "none", scene |-> 0]]

Init ==
    /\ catalogVer \in Versions
    /\ debug \in {0, 1}
    /\ verbose = DefaultVerbosity
    /\ catalog \in Catalogs
    /\ run = NoRun
    /\ peer = NoPeer
    /\ ren = NoRename
    /\ page = NoPage
    /\ meta = <<>>
    /\ tmp = NoFiles
    /\ raw = NoFiles
    /\ work = "none"
    /\ stage = NoBlob
    /\ store = NoBlob
    /\ marker = FALSE
    /\ pc = "idle"
    /\ call = NoCall
    /\ prev = NoPrev
    /\ extSince = "none"

\* --------------------------------------------------------- cache manager
\* The identifier is cached when the completion marker is there.
IsCached == marker

\* The local metadata copy asks for a newer package than the running one.
VersionMismatch == meta # <<>> /\ meta[1] > PackageVersion

\* Faulty variant (a gate that lets every entry through)
VersionGateOpen(entry) == TRUE

VersionCompatible(entry) == entry[1] <= PackageVersion

\* Faulty variant (a cache test that never finds the cache)
CachedPathNever(force) == FALSE

\* Faulty variant (a cache test that takes the identifier's directory for the cache)
CachedPathByDirectory(force) == (IsCached \/ meta # <<>>) /\ ~force /\ ~VersionMismatch

\* Faulty variant (a cache test that also wants the intermediate files)
CachedPathWithRaw(force) ==
    IsCached /\ ~force /\ ~VersionMismatch /\ \A f \in Files : raw[f] = "good"

\* Faulty variant (with the debug flag set the cache is not read)
CachedPathUnlessDebug(force) == IsCached /\ ~force /\ ~VersionMismatch /\ debug = 0

\* A load reads the persisted dataset when the identifier is cached and no
\* rebuild is forced, by the caller or by a version mismatch.
CachedPath(force) == IsCached /\ ~force /\ ~VersionMismatch

\* Faulty variant (a version mismatch evicts the persisted dataset at once)
DiscardOnMismatch ==
    IF VersionMismatch THEN [store |-> NoBlob, marker |-> FALSE]
    ELSE [store |-> store, marker |-> marker]

\* Faulty variant (delete-before-replace)
DiscardEagerly == [store |-> NoBlob, marker |-> FALSE]

\* What a rebuild of a cached identifier does to the prior output when it
\* starts: nothing (never delete-before-replace).
DiscardAtStart == [store |-> store, marker |-> marker]

\* load_dataset(identifier, root): the catalog-identifier path.
LoadByIdGiven(arg, force) ==
    /\ pc = "idle"
    /\ TakesCatalog(arg)
    /\ arg.names = "this"
    /\ call' = Dispatched(arg, "id", force)
    /\ IF CachedPath(force)
       THEN /\ pc' = "reading"
            /\ UNCHANGED <<tmp, store, marker>>
       ELSE /\ pc' = "resolving"
            /\ tmp' = NoFiles   \* a temporary directory of its own: what a
                                \* killed call left in its own is out of reach
            /\ store' = DiscardAtStart.store
            /\ marker' = DiscardAtStart.marker
    /\ UNCHANGED <<env, run, meta, raw, work, stage, prev, extSince>>

LoadById(force) == LoadByIdGiven(StringArgument("this", FALSE), force)

\* Cached: read the persisted dataset.
ReadCached ==
    /\ pc = "reading"
    /\ call' = [call EXCEPT !.result = Deserialise(store)]
    /\ pc' = "done"
    /\ UNCHANGED <<env, run, disk, prev, extSince>>

Fail(error, where) == [call EXCEPT !.err = error, !.failedIn = where]

\* Resolving: the local metadata copy if there is one, else the catalog.
ResolveLocal ==
    /\ pc = "resolving"
    /\ meta # <<>>
    /\ call' = [call EXCEPT !.entry = meta]
    /\ pc' = "checking"
    /\ UNCHANGED <<env, run, disk, prev, extSince>>

ResolveRemote ==
    /\ pc = "resolving"
    /\ meta = <<>>
    /\ \/ /\ meta' = <<catalogVer>>
          /\ call' = [call EXCEPT !.entry = <<catalogVer>>, !.netMeta = TRUE]
          /\ pc' = "checking"
       \/ /\ \E error \in {"NetworkError", "SchemaError"} :
                call' = [Fail(error, "resolving") EXCEPT !.netMeta = TRUE]
          /\ pc' = "failed"
          /\ UNCHANGED meta
    /\ UNCHANGED <<env, run, tmp, raw, work, stage, store, marker, prev, extSince>>

\* Faulty variant (a gate that evicts the cache of the entry it rejects)
CheckVersionEvicting ==
    /\ pc = "checking"
    /\ IF VersionCompatible(call.entry)
       THEN /\ pc' = "fetching"
            /\ UNCHANGED <<call, store, marker>>
       ELSE /\ pc' = "failed"
            /\ call' = Fail("IncompatibleVersionError", "resolving")
            /\ store' = NoBlob
            /\ marker' = FALSE
    /\ UNCHANGED <<env, run, meta, tmp, raw, work, stage, prev, extSince>>

\* The version gate.
CheckVersion ==
    /\ pc = "checking"
    /\ IF VersionCompatible(call.entry)
       THEN /\ pc' = "fetching"
            /\ UNCHANGED call
       ELSE /\ pc' = "failed"
            /\ call' = Fail("IncompatibleVersionError", "resolving")
    /\ UNCHANGED <<env, run, disk, prev, extSince>>

\* ------------------------------------------------------ fetcher + verifier
\* Faulty variant (a download written straight to the manifest path)
DownloadInPlace(f, content) == [tmp |-> tmp, raw |-> [raw EXCEPT ![f] = content]]

\* Faulty variant (every download written to one shared temporary path)
DownloadToShared(f, content) == [tmp |-> [tmp EXCEPT ![1] = content], raw |-> raw]

\* Where the bytes of a download are written: the temporary location.
DownloadTo(f, content) == [tmp |-> [tmp EXCEPT ![f] = content], raw |-> raw]

\* Faulty variant (a verifier that accepts any bytes)
ChecksumIgnored(content) == TRUE

\* verify(localPath, expectedChecksum): only the genuine bytes hash to it.
ChecksumMatches(content) == content = "good"

\* Faulty variant (no cleanup)
LeaveWorkingDir == [tmp |-> tmp, raw |-> raw, work |-> work, stage |-> stage]

\* What a failed load leaves of the working directory: nothing.
CleanWorkingDir == [tmp |-> NoFiles, raw |-> NoFiles, work |-> "none", stage |-> NoBlob]

\* Fetching -> Failed or Processing -> Failed: clean up, then fail.
FailWithCleanup(error, where) ==
    /\ tmp' = CleanWorkingDir.tmp
    /\ raw' = CleanWorkingDir.raw
    /\ work' = CleanWorkingDir.work
    /\ stage' = CleanWorkingDir.stage
    /\ call' = Fail(error, where)
    /\ pc' = "failed"

\* The checksum of the bytes at the path of manifest file f; the manifest
\* lists the checksum of the genuine bytes.
Digest(f, content) == <<f, IF content = "good" THEN "published" ELSE content>>
Expected(f) == Digest(f, "good")

\* Faulty variant (the error names the first file of the manifest)
FirstOfManifest(f) == 1

\* The file an IntegrityError names: the one that failed verification.
Offending(f) == f

\* What an IntegrityError tells: the identifier, the file, the checksum found
\* and the checksum expected.
IntegrityDetail(f) ==
    [identifier |-> call.arg, file |-> Offending(f),
     found |-> Digest(f, tmp[f]), expected |-> Expected(f)]

\* Verification failed on file f: clean up, then fail naming the file.
FailIntegrity(f) ==
    /\ tmp' = CleanWorkingDir.tmp
    /\ raw' = CleanWorkingDir.raw
    /\ work' = CleanWorkingDir.work
    /\ stage' = CleanWorkingDir.stage
    /\ call' = [Fail("IntegrityError", "fetching") EXCEPT !.detail = IntegrityDetail(f)]
    /\ pc' = "failed"

\* The manifest files are fetched one after another, in manifest order.
BeginDownload ==
    /\ pc = "fetching"
    /\ call.next <= NFiles
    /\ tmp' = DownloadTo(call.next, "partial").tmp
    /\ raw' = DownloadTo(call.next, "partial").raw
    /\ call' = [call EXCEPT !.netFile = TRUE]
    /\ pc' = "downloading"
    /\ UNCHANGED <<env, run, meta, work, stage, store, marker, prev, extSince>>

\* The transfer ends: the bytes arrived as published, or with a byte flipped.
FinishDownload ==
    /\ pc = "downloading"
    /\ \E content \in {"good", "bad"} :
          /\ tmp' = DownloadTo(call.next, content).tmp
          /\ raw' = DownloadTo(call.next, content).raw
          /\ call' = [call EXCEPT
                         !.sawCorrupt = call.sawCorrupt \/ content = "bad",
                         !.corrupt = IF content = "bad"
                                     THEN call.corrupt \cup {call.next}
                                     ELSE call.corrupt]
    /\ pc' = "verifying"
    /\ UNCHANGED <<env, run, meta, work, stage, store, marker, prev, extSince>>

\* The transport fails.
DownloadFails ==
    /\ pc = "downloading"
    /\ FailWithCleanup("NetworkError", "fetching")
    /\ UNCHANGED <<env, run, meta, store, marker, prev, extSince>>

\* Faulty variant (a file that fails verification is downloaded again)
VerifyFileRetrying ==
    /\ pc = "verifying"
    /\ IF ChecksumMatches(tmp[call.next])
       THEN /\ raw' = [raw EXCEPT ![call.next] = tmp[call.next]]
            /\ tmp' = [tmp EXCEPT ![call.next] = "none"]
            /\ call' = [call EXCEPT !.next = call.next + 1,
                                    !.fetched = call.fetched \cup {call.next}]
       ELSE /\ tmp' = [tmp EXCEPT ![call.next] = "none"]
            /\ UNCHANGED <<raw, call>>
    /\ pc' = "fetching"
    /\ UNCHANGED <<env, run, meta, work, stage, store, marker, prev, extSince>>

\* Verification; a verified file is promoted to its manifest path.
VerifyFile ==
    /\ pc = "verifying"
    /\ IF ChecksumMatches(tmp[call.next])
       THEN /\ raw' = [raw EXCEPT ![call.next] = tmp[call.next]]
            /\ tmp' = [tmp EXCEPT ![call.next] = "none"]
            /\ call' = [call EXCEPT !.next = call.next + 1,
                                    !.fetched = call.fetched \cup {call.next}]
            /\ pc' = "fetching"
            /\ UNCHANGED <<work, stage>>
       ELSE FailIntegrity(call.next)
    /\ UNCHANGED <<env, run, meta, store, marker, prev, extSince>>

AllFetched ==
    /\ pc = "fetching"
    /\ call.next > NFiles
    /\ pc' = "processing"
    /\ UNCHANGED <<env, run, disk, prev, extSince, call>>

\* ------------------------------------------------ fetches in parallel
\* The manifest files fetched side by side: each file has its own download
\* and its own verification, in any interleaving.
StartFetch(f) ==
    /\ pc = "fetching"
    /\ f \notin call.fetched
    /\ tmp[f] = "none"
    /\ tmp' = DownloadTo(f, "partial").tmp
    /\ raw' = DownloadTo(f, "partial").raw
    /\ call' = [call EXCEPT !.netFile = TRUE]
    /\ UNCHANGED <<env, run, meta, work, stage, store, marker, pc, prev, extSince>>

EndFetch(f) ==
    /\ pc = "fetching"
    /\ tmp[f] = "partial"
    /\ \E content \in {"good", "bad"} :
          /\ tmp' = DownloadTo(f, content).tmp
          /\ raw' = DownloadTo(f, content).raw
          /\ call' = [call EXCEPT
                         !.sawCorrupt = call.sawCorrupt \/ content = "bad",
                         !.corrupt = IF content = "bad"
                                     THEN call.corrupt \cup {f}
                                     ELSE call.corrupt]
    /\ UNCHANGED <<env, run, meta, work, stage, store, marker, pc, prev, extSince>>

FetchFails(f) ==
    /\ pc = "fetching"
    /\ tmp[f] = "partial"
    /\ FailWithCleanup("NetworkError", "fetching")
    /\ UNCHANGED <<env, run, meta, store, marker, prev, extSince>>

VerifyFetched(f) ==
    /\ pc = "fetching"
    /\ tmp[f] \in {"good", "bad"}
    /\ IF ChecksumMatches(tmp[f])
       THEN /\ raw' = [raw EXCEPT ![f] = tmp[f]]
            /\ tmp' = [tmp EXCEPT ![f] = "none"]
            /\ call' = [call EXCEPT !.fetched = call.fetched \cup {f}]
            /\ UNCHANGED <<work, stage, pc>>
       ELSE FailIntegrity(f)
    /\ UNCHANGED <<env, run, meta, store, marker, prev, extSince>>

\* Faulty variant (the chain starts as soon as one file is verified)
SomeFetched == call.fetched # {}

\* Every manifest file has been fetched and verified by this call.
EveryFetched == call.fetched = Files

AllFetchedParallel ==
    /\ pc = "fetching"
    /\ EveryFetched
    /\ pc' = "processing"
    /\ UNCHANGED <<env, run, disk, prev, extSince, call>>

\* ------------------------------------------------------------ processing
\* The chain starts on the working directory.
BeginChain ==
    /\ pc = "processing"
    /\ work' = "partial"
    /\ call' = [call EXCEPT !.chainRan = TRUE]
    /\ run' = StartRun(catalog.processing, WorkingDir(raw))
    /\ pc' = "chain"
    /\ UNCHANGED <<env, meta, tmp, raw, stage, store, marker, prev, extSince>>

\* What the step about to run reads: what the step before it left.
StepInput == [dir |-> run.dir, seq |-> run.seq, err |-> ""]

\* Faulty variant (the interpreter goes on after a step that failed)
AfterStepLenient(out) == "running"

\* A step that fails raises: the run is over.
AfterStep(out) == IF out.err = "" THEN "running" ELSE "raised"

\* Faulty variant (every step is handed the directory the chain was given)
ExecStepOnGiven ==
    /\ pc = "chain"
    /\ run.status = "running"
    /\ run.ip <= Len(run.chain)
    /\ LET out == ApplyStep(run.chain[run.ip], Working(run.given))
       IN  run' = [run EXCEPT !.dir = out.dir, !.seq = out.seq, !.err = out.err,
                              !.ip = run.ip + 1,
                              !.status = AfterStep(out),
                              !.trace = Append(run.trace, run.ip),
                              !.ins = Append(run.ins, Working(run.given)),
                              !.outs = Append(run.outs, out)]
    /\ UNCHANGED <<env, disk, pc, call, prev, extSince>>

\* The interpreter runs the step at its position and moves on by one.
ExecStep ==
    /\ pc = "chain"
    /\ run.status = "running"
    /\ run.ip <= Len(run.chain)
    /\ LET out == ApplyStep(run.chain[run.ip], StepInput)
       IN  run' = [run EXCEPT !.dir = out.dir, !.seq = out.seq, !.err = out.err,
                              !.ip = run.ip + 1,
                              !.status = AfterStep(out),
                              !.trace = Append(run.trace, run.ip),
                              !.ins = Append(run.ins, StepInput),
                              !.outs = Append(run.outs, out)]
    /\ UNCHANGED <<env, disk, pc, call, prev, extSince>>

\* Past the last step the chain returns the structures in flight.
ChainReturn ==
    /\ pc = "chain"
    /\ run.status = "running"
    /\ run.ip > Len(run.chain)
    /\ run' = [run EXCEPT !.status = "returned", !.result = run.seq]
    /\ UNCHANGED <<env, disk, pc, call, prev, extSince>>

ChainSucceeds ==
    /\ pc = "chain"
    /\ run.status = "returned"
    /\ work' = "done"
    /\ call' = [call EXCEPT !.result = run.result]
    /\ run' = NoRun
    /\ pc' = "persisting"
    /\ UNCHANGED <<env, meta, tmp, raw, stage, store, marker, prev, extSince>>

ChainFails ==
    /\ pc = "chain"
    /\ run.status = "raised"
    /\ FailWithCleanup(run.err, "processing")
    /\ run' = NoRun
    /\ UNCHANGED <<env, meta, store, marker, prev, extSince>>

\* ------------------------------------------------------------ persisting
\* Faulty variant (the marker written before the dataset)
StageBeginMarked ==
    /\ pc = "persisting"
    /\ stage' = PartialBlob
    /\ marker' = TRUE
    /\ pc' = "staging"
    /\ UNCHANGED <<env, run, meta, tmp, raw, work, store, prev, extSince, call>>

StageBegin ==
    /\ pc = "persisting"
    /\ stage' = PartialBlob
    /\ pc' = "staging"
    /\ UNCHANGED <<env, run, meta, tmp, raw, work, store, marker, prev, extSince, call>>

StageWrite ==
    /\ pc = "staging"
    /\ stage' = Serialise(call.result)
    /\ pc' = "staged"
    /\ UNCHANGED <<env, run, meta, tmp, raw, work, store, marker, prev, extSince, call>>

\* Faulty variant (the marker written together with the dataset)
CommitMarking ==
    /\ pc = "staged"
    /\ store' = stage
    /\ stage' = NoBlob
    /\ marker' = TRUE
    /\ pc' = "committed"
    /\ UNCHANGED <<env, run, meta, tmp, raw, work, prev, extSince, call>>

\* Faulty variant (a prior persisted dataset is not replaced)
CommitKeepingPrior ==
    /\ pc = "staged"
    /\ store' = IF store.st = "full" THEN store ELSE stage
    /\ stage' = NoBlob
    /\ pc' = "committed"
    /\ UNCHANGED <<env, run, meta, tmp, raw, work, marker, prev, extSince, call>>

\* The complete new dataset replaces the prior one in one step.
Commit ==
    /\ pc = "staged"
    /\ store' = stage
    /\ stage' = NoBlob
    /\ pc' = "committed"
    /\ UNCHANGED <<env, run, meta, tmp, raw, work, marker, prev, extSince, call>>

\* The completion marker is the last write of Persisting.
WriteMarker ==
    /\ pc = "committed"
    /\ marker' = TRUE
    /\ pc' = "marked"
    /\ UNCHANGED <<env, run, meta, tmp, raw, work, stage, store, prev, extSince, call>>

\* Faulty variant (the auxiliary files are kept whatever the flag says)
AuxiliaryKept == [tmp |-> tmp, raw |-> raw, work |-> work]

\* LOAD_ATOMS_DEBUG = 0 deletes the auxiliary files, 1 keeps them.
AuxiliaryAfterLoad ==
    IF debug = 0 THEN [tmp |-> NoFiles, raw |-> NoFiles, work |-> "none"]
    ELSE [tmp |-> tmp, raw |-> raw, work |-> work]

FinishLoad ==
    /\ pc = "marked"
    /\ tmp' = AuxiliaryAfterLoad.tmp
    /\ raw' = AuxiliaryAfterLoad.raw
    /\ work' = AuxiliaryAfterLoad.work
    /\ pc' = "done"
    /\ UNCHANGED <<env, run, meta, stage, store, marker, prev, extSince, call>>

\* ------------------------------------------------- the other two entries
\* load_dataset(path): the default chain on the user's own file, no caching.
LoadByPathGiven(arg) ==
    /\ pc = "idle"
    /\ TakesPath(arg)
    /\ \E content \in LocalContents :
          call' = [Dispatched(arg, "path", FALSE) EXCEPT !.local = content]
    /\ pc' = "pathload"
    /\ UNCHANGED <<env, run, disk, prev, extSince>>

LoadByPath == LoadByPathGiven(StringArgument("nothing", TRUE))

\* Faulty variant (a hidden copy of the user's file kept under root)
ReadPathCaching ==
    /\ pc = "pathload"
    /\ call.local # <<>>
    /\ call' = [call EXCEPT !.result =
                    IF store.st = "full" THEN Deserialise(store)
                    ELSE ParseFile(0, call.local[1])]
    /\ store' = IF store.st = "full" THEN store
                ELSE Serialise(ParseFile(0, call.local[1]))
    /\ pc' = "done"
    /\ UNCHANGED <<env, run, meta, tmp, raw, work, stage, marker, prev, extSince>>

ReadPath ==
    /\ pc = "pathload"
    /\ IF call.local = <<>>
       THEN /\ call' = Fail("ParseError", "path")
            /\ pc' = "failed"
       ELSE /\ call' = [call EXCEPT !.result = ParseFile(0, call.local[1])]
            /\ pc' = "done"
    /\ UNCHANGED <<env, run, disk, prev, extSince>>

\* The lists of structures a caller holds in memory: in any order.
Reverse(s) == [i \in 1..Len(s) |-> s[Len(s) + 1 - i]]
MemoryLists ==
    {ParseFile(0, n) : n \in 0..MaxStructs}
        \cup {Reverse(ParseFile(0, n)) : n \in 0..MaxStructs}

\* Faulty variant (the list is kept under root, and read from there)
LoadInMemoryCaching ==
    /\ pc = "idle"
    /\ \E given \in MemoryLists :
          call' = [NewCall("mem", FALSE) EXCEPT
                      !.local = given,
                      !.result = IF store.st = "full" THEN Deserialise(store)
                                 ELSE given]
    /\ store' = IF store.st = "full" THEN store ELSE Serialise(call'.local)
    /\ pc' = "done"
    /\ UNCHANGED <<env, run, meta, tmp, raw, work, stage, marker, prev, extSince>>

\* load_dataset(list of structures): wrapped as it is.
LoadInMemoryGiven(arg) ==
    /\ pc = "idle"
    /\ TakesList(arg)
    /\ \E given \in MemoryLists :
          call' = [Dispatched(arg, "mem", FALSE) EXCEPT !.local = given, !.result = given]
    /\ pc' = "done"
    /\ UNCHANGED <<env, run, disk, prev, extSince>>

LoadInMemory == LoadInMemoryGiven(ListArgument)

\* load_dataset(another identifier, root): that identifier has a directory
\* of its own under root, which is not part of this state.
LoadOtherGiven(arg) ==
    /\ pc = "idle"
    /\ TakesCatalog(arg)
    /\ arg.names # "this"
    /\ call' = Dispatched(arg, "other", FALSE)
    /\ pc' = "resolvingOther"
    /\ UNCHANGED <<env, run, disk, prev, extSince>>

LoadOther == \E names \in {"other", "nothing"} : LoadOtherGiven(StringArgument(names, FALSE))

\* The catalog does not know the identifier, or the load goes through.
ResolveOther ==
    /\ pc = "resolvingOther"
    /\ IF call.given.names = "nothing"
       THEN /\ call' = [Fail("NotFoundError", "resolving") EXCEPT !.netMeta = TRUE]
            /\ pc' = "failed"
       ELSE /\ call' = [call EXCEPT !.netMeta = TRUE, !.netFile = TRUE,
                                     !.result = ParseFile(NFiles + 1, 1)]
            /\ pc' = "done"
    /\ UNCHANGED <<env, run, disk, prev, extSince>>

\* ------------------------------------------------------- end of the call
\* Faulty variant (the usage information is printed whatever the verbosity)
NeverSuppressed == FALSE

\* LOAD_ATOMS_VERBOSE = 0 prints no information about the dataset.
NoticeSuppressed == verbose = 0

\* A load from the catalog that succeeded displays the usage information
\* (license, citation) before it returns.
UsageDue == pc = "done" /\ call.arg \in {"id", "other"} /\ ~call.usage

ShowUsage ==
    /\ UsageDue
    /\ call' = [call EXCEPT !.usage = TRUE,
                            !.notices = IF NoticeSuppressed THEN call.notices
                                        ELSE call.notices + 1]
    /\ UNCHANGED <<env, run, disk, pc, prev, extSince>>

Return ==
    /\ pc \in {"done", "failed"}
    /\ ~UsageDue
    /\ IF call.arg = "id"
       THEN /\ prev' = Summary(call, pc)
            /\ extSince' = "none"
       ELSE UNCHANGED <<prev, extSince>>
    /\ call' = NoCall
    /\ pc' = "idle"
    /\ UNCHANGED <<env, run, disk>>

\* External termination of the process, between any two steps of a load.
Kill ==
    /\ pc \notin {"idle", "done", "failed"}
    /\ IF call.arg = "id"
       THEN /\ prev' = Summary(call, "killed")
            /\ extSince' = "none"
       ELSE UNCHANGED <<prev, extSince>>
    /\ call' = NoCall
    /\ pc' = "idle"
    /\ run' = NoRun
    /\ UNCHANGED <<env, disk>>

\* ------------------------------------------------------------- the user
Touched(what) == IF extSince = "other" THEN "other" ELSE what

DeleteRaw ==
    /\ pc = "idle"
    /\ raw' = NoFiles
    /\ work' = "none"
    /\ extSince' = Touched("raw")
    /\ UNCHANGED <<env, run, meta, tmp, stage, store, marker, pc, call, prev>>

DeleteCache ==
    /\ pc = "idle"
    /\ meta' = <<>>
    /\ tmp' = NoFiles
    /\ raw' = NoFiles
    /\ work' = "none"
    /\ stage' = NoBlob
    /\ store' = NoBlob
    /\ marker' = FALSE
    /\ extSince' = "other"
    /\ UNCHANGED <<env, run, pc, call, prev>>

\* The metadata copy is replaced by an entry that asks for version v.
ReplaceMetadata ==
    /\ pc = "idle"
    /\ \E v \in Versions : meta' = <<v>>
    /\ extSince' = "other"
    /\ UNCHANGED <<env, run, tmp, raw, work, stage, store, marker, pc, call, prev>>

Next ==
    \/ \E force \in BOOLEAN : LoadById(force)
    \/ ReadCached
    \/ ResolveLocal
    \/ ResolveRemote
    \/ CheckVersion
    \/ BeginDownload
    \/ FinishDownload
    \/ DownloadFails
    \/ VerifyFile
    \/ AllFetched
    \/ BeginChain
    \/ ExecStep
    \/ ChainReturn
    \/ ChainSucceeds
    \/ ChainFails
    \/ StageBegin
    \/ StageWrite
    \/ Commit
    \/ WriteMarker
    \/ FinishLoad
    \/ ShowUsage
    \/ LoadByPath
    \/ ReadPath
    \/ LoadInMemory
    \/ LoadOther
    \/ ResolveOther
    \/ Return
    \/ Kill
    \/ DeleteRaw
    \/ DeleteCache
    \/ ReplaceMetadata

Spec == Init /\ [][Next]_vars

\* The loads of the identifier with the manifest files fetched in parallel.
NextParallel ==
    \/ \E force \in BOOLEAN : LoadById(force)
    \/ ReadCached
    \/ ResolveLocal
    \/ ResolveRemote
    \/ CheckVersion
    \/ \E f \in Files : StartFetch(f)
    \/ \E f \in Files : EndFetch(f)
    \/ \E f \in Files : FetchFails(f)
    \/ \E f \in Files : VerifyFetched(f)
    \/ AllFetchedParallel
    \/ BeginChain
    \/ ExecStep
    \/ ChainReturn
    \/ ChainSucceeds
    \/ ChainFails
    \/ StageBegin
    \/ StageWrite
    \/ Commit
    \/ WriteMarker
    \/ FinishLoad
    \/ ShowUsage
    \/ Return
    \/ Kill
    \/ DeleteCache

SpecParallel == Init /\ [][NextParallel]_vars

TypeOK ==
    /\ catalogVer \in Versions
    /\ meta \in {<<>>} \cup {<<v>> : v \in Versions}
    /\ tmp \in [Files -> {"none", "partial", "good", "bad"}]
    /\ raw \in [Files -> {"none", "partial", "good", "bad"}]
    /\ work \in {"none", "partial", "done"}
    /\ stage.st \in {"none", "partial", "full"}
    /\ store.st \in {"none", "partial", "full"}
    /\ marker \in BOOLEAN
    /\ extSince \in {"none", "raw", "other"}

\* ------------------------------------------- the interpreter on its own
\* run(chain, workingDir) for every chain and directory within the bounds.
InitChain ==
    /\ catalogVer = 1
    /\ debug = 0
    /\ verbose = DefaultVerbosity
    /\ catalog = [processing |-> NoProcessing, malformed |-> {}]
    /\ peer = NoPeer
    /\ ren = NoRename
    /\ page = NoPage
    /\ meta = <<>>
    /\ tmp = NoFiles
    /\ raw = NoFiles
    /\ work = "none"
    /\ stage = NoBlob
    /\ store = NoBlob
    /\ marker = FALSE
    /\ pc = "chain"
    /\ call = NoCall
    /\ prev = NoPrev
    /\ extSince = "none"
    /\ \E processing \in Processings, dir \in Directories :
          run = StartRun(processing, dir)

NextChain ==
    \/ ExecStep
    \/ ChainReturn

SpecChain == InitChain /\ [][NextChain]_vars

\* ------------------------------------------- the entry republished
\* The releases of the identifier's entry: the entries above, and one whose
\* chain selects the last manifest file and reads it.
Releases ==
    Catalogs \cup
    { [processing |-> Processing(<<[Step("SelectFile") EXCEPT
                                        !.pattern = Pattern(NFiles, "xyz")],
                                   Step("ReadASE")>>),
       malformed |-> {}] }

\* Between two loads the entry is replaced by another release.
Republish ==
    /\ pc = "idle"
    /\ \E release \in Releases \ {catalog} : catalog' = release
    /\ extSince' = "other"
    /\ UNCHANGED <<catalogVer, debug, verbose, peer, ren, page, run, disk, pc, call, prev>>

InitRebuild ==
    /\ catalogVer \in Versions
    /\ debug \in {0, 1}
    /\ verbose = DefaultVerbosity
    /\ catalog \in Releases
    /\ run = NoRun
    /\ peer = NoPeer
    /\ ren = NoRename
    /\ page = NoPage
    /\ meta = <<>>
    /\ tmp = NoFiles
    /\ raw = NoFiles
    /\ work = "none"
    /\ stage = NoBlob
    /\ store = NoBlob
    /\ marker = FALSE
    /\ pc = "idle"
    /\ call = NoCall
    /\ prev = NoPrev
    /\ extSince = "none"

\* The loads of the identifier, plain and forced, over successive releases.
NextRebuild ==
    \/ \E force \in BOOLEAN : LoadById(force)
    \/ ReadCached
    \/ ResolveLocal
    \/ ResolveRemote
    \/ CheckVersion
    \/ BeginDownload
    \/ FinishDownload
    \/ DownloadFails
    \/ VerifyFile
    \/ AllFetched
    \/ BeginChain
    \/ ExecStep
    \/ ChainReturn
    \/ ChainSucceeds
    \/ ChainFails
    \/ StageBegin
    \/ StageWrite
    \/ Commit
    \/ WriteMarker
    \/ FinishLoad
    \/ ShowUsage
    \/ Return
    \/ Kill
    \/ Republish

SpecRebuild == InitRebuild /\ [][NextRebuild]_vars

\* ------------------------------------------------- the load as a process
\* The steps of a load in flight. load_dataset runs them one after another in
\* the caller's thread: while the process lives, the step the load is at is
\* taken, each download and each processing step coming to an end.
LoadStep ==
    \/ ReadCached
    \/ ResolveLocal
    \/ ResolveRemote
    \/ CheckVersion
    \/ BeginDownload
    \/ FinishDownload
    \/ DownloadFails
    \/ VerifyFile
    \/ AllFetched
    \/ BeginChain
    \/ ExecStep
    \/ ChainReturn
    \/ ChainSucceeds
    \/ ChainFails
    \/ StageBegin
    \/ StageWrite
    \/ Commit
    \/ WriteMarker
    \/ FinishLoad
    \/ ShowUsage

NextLive ==
    \/ \E force \in BOOLEAN : LoadById(force)
    \/ LoadStep
    \/ Return
    \/ Kill
    \/ DeleteCache
    \/ ReplaceMetadata

SpecLive == Init /\ [][NextLive]_vars /\ WF_vars(LoadStep)

\* ------------------------------------------------------- the dispatch
\* load_dataset(thing, root) for every kind of first argument: the path of
\* the dispatch that takes the argument is followed.
LoadDataset ==
    \E arg \in Arguments :
        \/ \E force \in BOOLEAN : LoadByIdGiven(arg, force)
        \/ LoadOtherGiven(arg)
        \/ LoadByPathGiven(arg)
        \/ LoadInMemoryGiven(arg)

NextDispatch ==
    \/ LoadDataset
    \/ LoadStep
    \/ ReadPath
    \/ ResolveOther
    \/ Return

SpecDispatch == Init /\ [][NextDispatch]_vars

\* ---------------------------------------------------- the configuration
\* Every entry of load_dataset under every setting of LOAD_ATOMS_VERBOSE and
\* LOAD_ATOMS_DEBUG.
InitConfig ==
    /\ catalogVer \in Versions
    /\ debug \in {0, 1}
    /\ verbose \in Verbosities
    /\ catalog \in Catalogs
    /\ run = NoRun
    /\ peer = NoPeer
    /\ ren = NoRename
    /\ page = NoPage
    /\ meta = <<>>
    /\ tmp = NoFiles
    /\ raw = NoFiles
    /\ work = "none"
    /\ stage = NoBlob
    /\ store = NoBlob
    /\ marker = FALSE
    /\ pc = "idle"
    /\ call = NoCall
    /\ prev = NoPrev
    /\ extSince = "none"

NextConfig ==
    \/ \E force \in BOOLEAN : LoadById(force)
    \/ LoadByPath
    \/ LoadInMemory
    \/ LoadOther
    \/ LoadStep
    \/ ReadPath
    \/ ResolveOther
    \/ Return
    \/ Kill
    \/ DeleteCache
    \/ ReplaceMetadata

SpecConfig == InitConfig /\ [][NextConfig]_vars

\* ------------------------------------------------- two loads at once
\* Two processes load the identifier into the same root, with no lock. They
\* share what is under root/name; each has its own call and its own
\* temporary directory. The processes are interleaved step by step: the one
\* that runs is set aside and the one that waited goes on.
Switch ==
    /\ peer' = [pc |-> pc, call |-> call, run |-> run, tmp |-> tmp]
    /\ pc' = peer.pc
    /\ call' = peer.call
    /\ run' = peer.run
    /\ tmp' = peer.tmp
    /\ UNCHANGED <<catalogVer, debug, verbose, catalog, ren, page, meta, raw, work,
                   stage, store, marker, prev, extSince>>

NextRace ==
    \/ LoadById(FALSE)
    \/ LoadStep
    \/ Switch

SpecRace == Init /\ [][NextRace]_vars

\* ------------------------------------------------- Rename on its own
\* Rename(mapping) on every structure sequence and mapping within the
\* bounds, applied once and then once more to what it gave.
\* The names the Rename step of Si-GAP-18 maps, and a property of the
\* dataset it does not name.
EnergyNames == {"DFT_energy", "dft_energy", "energy"}
FieldNames == EnergyNames \cup {"config_type"}

\* The value the parser gave field k of structure i.
FieldValue(i, k) == <<i, k>>

\* Structure i with the fields named: config_type and any of the energies.
StructureWith(i, names) == [k \in names \cup {"config_type"} |-> FieldValue(i, k)]

RECURSIVE SequencesOfLength(_)
SequencesOfLength(n) ==
    IF n = 0 THEN {<<>>}
    ELSE {Append(seq, StructureWith(n, names)) :
              seq \in SequencesOfLength(n - 1), names \in SUBSET EnergyNames}

StructureSequences == UNION {SequencesOfLength(n) : n \in 0..MaxStructs}

\* A mapping is a YAML dictionary: pairs old: new in the order written,
\* no old name twice.
RECURSIVE MappingsOfLength(_)
MappingsOfLength(n) ==
    IF n = 0 THEN {<<>>}
    ELSE {Append(m, <<old, new>>) :
              m \in MappingsOfLength(n - 1),
              old \in FieldNames, new \in FieldNames}

OldKeys(mapping) == {mapping[j][1] : j \in DOMAIN mapping}
NewKeys(mapping) == {mapping[j][2] : j \in DOMAIN mapping}

Mappings ==
    {m \in UNION {MappingsOfLength(n) : n \in 0..MaxPairs} :
         Cardinality(OldKeys(m)) = Len(m)}

InitRename ==
    /\ catalogVer = 1
    /\ debug = 0
    /\ verbose = DefaultVerbosity
    /\ catalog = [processing |-> NoProcessing, malformed |-> {}]
    /\ peer = NoPeer
    /\ page = NoPage
    /\ meta = <<>>
    /\ tmp = NoFiles
    /\ raw = NoFiles
    /\ work = "none"
    /\ stage = NoBlob
    /\ store = NoBlob
    /\ marker = FALSE
    /\ run = NoRun
    /\ pc = "idle"
    /\ call = NoCall
    /\ prev = NoPrev
    /\ extSince = "none"
    /\ \E seq \in StructureSequences, mapping \in Mappings :
          ren = [NoRename EXCEPT !.seq = seq, !.mapping = mapping]

\* The step is applied to the sequence.
ApplyRename ==
    /\ ren.applied = 0
    /\ ren' = [ren EXCEPT !.applied = 1, !.once = Rename(ren.seq, ren.mapping)]
    /\ UNCHANGED <<catalogVer, debug, verbose, catalog, peer, page, disk, run,
                   pc, call, prev, extSince>>

\* The step is applied to what it gave.
ApplyRenameAgain ==
    /\ ren.applied = 1
    /\ ren' = [ren EXCEPT !.applied = 2, !.twice = Rename(ren.once, ren.mapping)]
    /\ UNCHANGED <<catalogVer, debug, verbose, catalog, peer, page, disk, run,
                   pc, call, prev, extSince>>

NextRename ==
    \/ ApplyRename
    \/ ApplyRenameAgain

SpecRename == InitRename /\ [][NextRename]_vars

\* ------------------------------------------------- the rotation script
\* A page shows two visualisations. Each is a container element with an x3d
\* scene in it and a copy of the rotation script in which "uid" has given
\* way to the identifier of the visualisation. The state of the page is its
\* clock (performance.now(), in ms), the scenes with their rotation
\* attribute and listeners, the variables of each copy of the script, and
\* the callbacks requested for the next animation frame.
Visualisations == {1, 2}

\* The identifier that takes the place of "uid" in visualisation i.
\* Faulty variant (the same identifier for every visualisation)
SameUid(i) == 0

Uid(i) == i

\* if (performance.now() - clickStart < 200)
ClickLimit == 200

\* rotationSpeed: 0.3 rad/s, that is 3 * 10^-4 rad per ms; angles are counted
\* in 10^-4 rad.
rotationSpeed == 3

\* The scene of visualisation i as the page is built: "x, y, z, angle" in
\* the rotation attribute of its atoms-rotation element, no listener yet.
\* held remembers the last mousedown on the scene: whether no mouseup came
\* since, when it came, and what currentlyRotating was before it.
Scene(i) ==
    [id |-> Uid(i), rotation |-> <<0, 0, 1, 0>>,
     mousedown |-> <<>>, mouseup |-> <<>>,
     held |-> [down |-> FALSE, at |-> 0, rotating |-> FALSE]]

\* document.getElementById(id): the first element of the document with the id.
getElementById(scenes, id) ==
    CHOOSE e \in DOMAIN scenes :
        /\ scenes[e].id = id
        /\ \A d \in 1..(e - 1) : scenes[d].id # id

\* The copy of the script of visualisation i, run to its end when the page
\* is built: config, previousTimeStamp, x3dScene, the first frame requested
\* and the mousedown listener added.
RunScript(pg, i, rotating) ==
    LET x3dScene == getElementById(pg.scenes, Uid(i))
    IN  [pg EXCEPT
           !.scripts = Append(@, [id |-> Uid(i), x3dScene |-> x3dScene,
                                  currentlyRotating |-> rotating,
                                  previousTimeStamp |-> pg.now,
                                  clickStart |-> "undefined",
                                  wasRotatingBeforeClick |-> "undefined"]),
           !.frames = Append(@, i),
           !.scenes[x3dScene].mousedown = Append(@, i)]

\* Faulty variant (a paused step that asks for no further frame)
animationStepStalling(pg, i, timeStamp) ==
    LET deltaTime == timeStamp - pg.scripts[i].previousTimeStamp
        x3dScene == pg.scripts[i].x3dScene
        seen == [pg EXCEPT !.scripts[i].previousTimeStamp = timeStamp]
    IN  IF ~pg.scripts[i].currentlyRotating
        THEN seen
        ELSE [seen EXCEPT
                !.scenes[x3dScene].rotation[4] = @ + rotationSpeed * deltaTime,
                !.frames = Append(@, i)]

\* Faulty variant (a step that rotates the scene whether paused or not)
animationStepAlways(pg, i, timeStamp) ==
    LET deltaTime == timeStamp - pg.scripts[i].previousTimeStamp
        x3dScene == pg.scripts[i].x3dScene
        seen == [pg EXCEPT !.scripts[i].previousTimeStamp = timeStamp]
    IN  [seen EXCEPT
           !.scenes[x3dScene].rotation[4] = @ + rotationSpeed * deltaTime,
           !.frames = Append(@, i)]

\* animationStep(timeStamp) of copy i.
animationStep(pg, i, timeStamp) ==
    LET deltaTime == timeStamp - pg.scripts[i].previousTimeStamp
        x3dScene == pg.scripts[i].x3dScene
        seen == [pg EXCEPT !.scripts[i].previousTimeStamp = timeStamp]
    IN  IF ~pg.scripts[i].currentlyRotating
        THEN [seen EXCEPT !.frames = Append(@, i)]
        ELSE [seen EXCEPT
                !.scenes[x3dScene].rotation[4] = @ + rotationSpeed * deltaTime,
                !.frames = Append(@, i)]

\* Faulty variant (a press of exactly 200 ms counts as a click)
shortClickInclusive(pg, i) == pg.now - pg.scripts[i].clickStart <= ClickLimit

\* performance.now() - clickStart < 200
shortClick(pg, i) == pg.now - pg.scripts[i].clickStart < ClickLimit

\* The mousedown listener of copy i: it adds one more mouseup listener to
\* the scene each time it runs.
mousedownListener(pg, i) ==
    [pg EXCEPT
       !.scripts[i].clickStart = pg.now,
       !.scripts[i].wasRotatingBeforeClick = pg.scripts[i].currentlyRotating,
       !.scripts[i].currentlyRotating = FALSE,
       !.scenes[pg.scripts[i].x3dScene].mouseup = Append(@, i)]

\* A mouseup listener of copy i.
mouseupListener(pg, i) ==
    [pg EXCEPT
       !.scripts[i].currentlyRotating =
           IF shortClick(pg, i)
           THEN ~pg.scripts[i].wasRotatingBeforeClick
           ELSE pg.scripts[i].wasRotatingBeforeClick]

\* An event dispatched to the listeners an element had when it came, in the
\* order they were added.
RECURSIVE DispatchMouseDown(_, _)
DispatchMouseDown(pg, listeners) ==
    IF listeners = <<>> THEN pg
    ELSE DispatchMouseDown(mousedownListener(pg, Head(listeners)), Tail(listeners))

RECURSIVE DispatchMouseUp(_, _)
DispatchMouseUp(pg, listeners) ==
    IF listeners = <<>> THEN pg
    ELSE DispatchMouseUp(mouseupListener(pg, Head(listeners)), Tail(listeners))

\* The callbacks of a frame, each called with the time stamp of the frame.
RECURSIVE RunCallbacks(_, _, _)
RunCallbacks(pg, callbacks, timeStamp) ==
    IF callbacks = <<>> THEN pg
    ELSE RunCallbacks(animationStep(pg, Head(callbacks), timeStamp),
                      Tail(callbacks), timeStamp)

\* The page as it is built: the scenes, then the copies of the script, each
\* with currentlyRotating as its config block sets it.
RECURSIVE RunScripts(_, _, _)
RunScripts(pg, i, rotating) ==
    IF i \notin Visualisations THEN pg
    ELSE RunScripts(RunScript(pg, i, rotating[i]), i + 1, rotating)

PageBuilt(rotating) ==
    RunScripts([NoPage EXCEPT !.scenes = [i \in Visualisations |-> Scene(i)]],
               1, rotating)

InitRotate ==
    /\ catalogVer = 1
    /\ debug = 0
    /\ verbose = DefaultVerbosity
    /\ catalog = [processing |-> NoProcessing, malformed |-> {}]
    /\ peer = NoPeer
    /\ ren = NoRename
    /\ meta = <<>>
    /\ tmp = NoFiles
    /\ raw = NoFiles
    /\ work = "none"
    /\ stage = NoBlob
    /\ store = NoBlob
    /\ marker = FALSE
    /\ run = NoRun
    /\ pc = "idle"
    /\ call = NoCall
    /\ prev = NoPrev
    /\ extSince = "none"
    /\ \E rotating \in [Visualisations -> BOOLEAN] : page = PageBuilt(rotating)

\* Time passes.
Tick ==
    /\ page.now + ClockStep <= MaxTime
    /\ page' = [page EXCEPT !.now = @ + ClockStep,
                            !.event = [kind |-> "tick", scene |-> 0]]
    /\ UNCHANGED <<catalogVer, debug, verbose, catalog, peer, ren, disk, run,
                   pc, call, prev, extSince>>

\* An animation frame: the callbacks requested so far are called; what they
\* request is for the frame after.
Frame ==
    /\ page' = [RunCallbacks([page EXCEPT !.frames = <<>>], page.frames, page.now)
                   EXCEPT !.event = [kind |-> "frame", scene |-> 0]]
    /\ UNCHANGED <<catalogVer, debug, verbose, catalog, peer, ren, disk, run,
                   pc, call, prev, extSince>>

\* The user presses a mouse button over scene e.
MouseDown(e) ==
    /\ Len(page.scenes[e].mouseup) < MaxPresses
    /\ page' = [DispatchMouseDown(page, page.scenes[e].mousedown) EXCEPT
                   !.scenes[e].held =
                       [down |-> TRUE, at |-> page.now,
                        rotating |-> page.scripts[e].currentlyRotating],
                   !.event = [kind |-> "mousedown", scene |-> e]]
    /\ UNCHANGED <<catalogVer, debug, verbose, catalog, peer, ren, disk, run,
                   pc, call, prev, extSince>>

\* The user releases a mouse button over scene e, wherever it was pressed.
MouseUp(e) ==
    /\ page' = [DispatchMouseUp(page, page.scenes[e].mouseup) EXCEPT
                   !.scenes[e].held.down = FALSE,
                   !.event = [kind |-> "mouseup", scene |-> e]]
    /\ UNCHANGED <<catalogVer, debug, verbose, catalog, peer, ren, disk, run,
                   pc, call, prev, extSince>>

NextRotate ==
    \/ Tick
    \/ Frame
    \/ \E e \in Visualisations : MouseDown(e)
    \/ \E e \in Visualisations : MouseUp(e)

SpecRotate == InitRotate /\ [][NextRotate]_vars

\* ---------------------------------------------------------------- claims
FullDataset == DefaultChain([f \in Files |-> "good"])

\* The call in flight is the one that follows a returned load of the
\* identifier, itself a plain load_dataset(id, root).
PlainAfter(outcome, touched) ==
    /\ call.arg = "id"
    /\ ~call.force
    /\ prev.outcome = outcome
    /\ extSince = touched

\* C1: after a successful load_dataset(id, root), with the cache untouched, a
\* second load_dataset(id, root) does not fail, touches the network neither
\* for the metadata nor for a file, and returns the very sequence the first
\* call returned.
C1_Idempotent ==
    PlainAfter("done", "none") =>
        /\ ~call.netMeta
        /\ ~call.netFile
        /\ pc # "failed"
        /\ (pc = "done" => call.result = prev.result)

C1_Witness ==
    /\ PlainAfter("done", "none")
    /\ pc = "done"
    /\ Len(call.result) > 1

\* C2: in every on-disk state, also after the process was killed between any
\* two writes of a load, the completion marker is there only if the persisted
\* dataset is there in full; and a load reads the persisted dataset only if
\* the marker was there when it started.
C2_MarkerLast ==
    /\ marker => store = Serialise(FullDataset)
    /\ pc = "reading" => call.startMarker

C2_Witness ==
    /\ prev.outcome = "killed"
    /\ stage.st = "partial"
    /\ ~marker
    /\ call.arg = "id"
    /\ ~call.force
    /\ pc = "resolving"

\* C3: a load of an uncached identifier that ends in Failed leaves no
\* completion marker, and the next plain load does not read a cache: it
\* starts again from Resolving.
C3_FailedLeavesNoCache ==
    /\ (pc = "failed" /\ call.arg = "id" /\ ~call.startMarker) => ~marker
    /\ (PlainAfter("failed", "none") /\ ~prev.startMarker) => pc # "reading"

C3_Witness ==
    /\ PlainAfter("failed", "none")
    /\ ~prev.startMarker
    /\ meta # <<>>
    /\ pc = "resolving"

\* C4 (as stated): once a downloaded manifest file does not hash to its
\* checksum, the load fails with IntegrityError, the chain is never run, and
\* no completion marker exists afterwards.
C4_NoMarkerAfterwards ==
    (call.arg = "id" /\ call.sawCorrupt) =>
        /\ pc \in {"verifying", "failed"}
        /\ ~call.chainRan
        /\ (pc = "failed" => call.err = "IntegrityError" /\ ~marker)

\* C4 (amended): once a downloaded manifest file does not hash to its
\* checksum, the load fails with IntegrityError, the chain is never run, and
\* the load creates no completion marker: one exists afterwards only if the
\* identifier was cached when the load, a forced rebuild, started.
C4_IntegrityEnforced ==
    (call.arg = "id" /\ call.sawCorrupt) =>
        /\ pc \in {"verifying", "failed"}
        /\ ~call.chainRan
        /\ (pc = "failed" =>
              /\ call.err = "IntegrityError"
              /\ marker = call.startMarker)

C4_Witness ==
    /\ call.arg = "id"
    /\ call.sawCorrupt
    /\ pc = "failed"
    /\ call.err = "IntegrityError"
    /\ call.next = NFiles

\* C5: when the DatabaseEntry asks for a newer version than the running
\* package, the load fails with IncompatibleVersionError at the version gate
\* and no file fetch of that load has started.
C5_VersionGate ==
    (call.arg = "id" /\ call.entry # <<>> /\ call.entry[1] > PackageVersion) =>
        /\ pc \in {"checking", "failed"}
        /\ ~call.netFile
        /\ tmp = NoFiles
        /\ (pc = "failed" => call.err = "IncompatibleVersionError")

C5_Witness ==
    /\ call.arg = "id"
    /\ call.netMeta
    /\ call.entry # <<>>
    /\ call.entry[1] > PackageVersion
    /\ pc = "failed"

\* A rebuild of a cached identifier keeps the prior persisted dataset and its
\* marker until the new dataset is complete, and so also when it fails.
PriorKeptUntilSuccess ==
    (call.arg = "id" /\ call.startMarker /\ pc \notin {"committed", "marked", "done"})
        => (marker /\ store = call.startStore)

\* C6 (as stated): a rebuild of a cached identifier, forced by the caller or
\* by a version mismatch, keeps the prior persisted dataset and its marker
\* until the new dataset is complete; if the rebuild fails, the next plain
\* load returns the prior dataset.
C6_NextLoadReturnsPrior ==
    /\ PriorKeptUntilSuccess
    /\ (PlainAfter("failed", "none") /\ prev.startMarker) =>
          /\ pc \in {"reading", "done"}
          /\ (pc = "done" => call.result = Deserialise(prev.startStore))

\* C6 (amended): a rebuild of a cached identifier keeps the prior persisted
\* dataset and its marker until the new dataset is complete; if the rebuild
\* fails, the next plain load returns the prior dataset when it detects no
\* version mismatch, and otherwise fails again with IncompatibleVersionError
\* before any fetch, the prior dataset still in place.
C6_ReplaceAfterSuccess ==
    /\ PriorKeptUntilSuccess
    /\ (PlainAfter("failed", "none") /\ prev.startMarker /\ ~VersionMismatch) =>
          /\ pc \in {"reading", "done"}
          /\ (pc = "done" => call.result = Deserialise(prev.startStore))
    /\ (PlainAfter("failed", "none") /\ prev.startMarker /\ VersionMismatch) =>
          /\ pc \in {"resolving", "checking", "failed"}
          /\ ~call.netFile
          /\ (pc = "failed" => call.err = "IncompatibleVersionError")

C6_Witness ==
    /\ PlainAfter("failed", "none")
    /\ prev.startMarker
    /\ pc = "done"
    /\ Len(call.result) > 1

\* C7: a manifest path never holds a file that has not passed checksum
\* verification, also after a fetch was interrupted at any point.
C7_OnlyVerifiedPromoted ==
    \A f \in Files : raw[f] \in {"none", "good"}

C7_Witness ==
    /\ pc = "idle"
    /\ prev.outcome = "killed"
    /\ raw[1] = "good"
    /\ tmp[NFiles] \in {"partial", "bad"}

\* C8: after a successful load, with only raw/ deleted since, a plain load
\* does not fail, fetches no file and returns the sequence the first load
\* returned.
C8_ReadWithoutRaw ==
    PlainAfter("done", "raw") =>
        /\ ~call.netFile
        /\ pc # "failed"
        /\ (pc = "done" => call.result = prev.result)

C8_Witness ==
    /\ PlainAfter("done", "raw")
    /\ debug = 1
    /\ pc = "done"
    /\ Len(call.result) > 1

\* C9: a load_dataset call with a filesystem path writes nothing under root,
\* performs no network access, and returns what the user's file holds at
\* that call.
C9_PathBypass ==
    [][(call.arg = "path" \/ call'.arg = "path") =>
          /\ disk' = disk
          /\ ~call'.netMeta
          /\ ~call'.netFile
          /\ (call'.arg = "path" /\ pc' = "done"
                => call'.result = ParseFile(0, call'.local[1]))]_vars

C9_Witness ==
    /\ call.arg = "path"
    /\ pc = "done"
    /\ marker
    /\ Len(call.result) = 1

C11_ChainAfterAllFetched ==
    /\ (call.chainRan \/ pc \in {"processing", "chain"}) =>
          /\ call.fetched = Files
          /\ ~call.sawCorrupt
    /\ pc \in {"processing", "chain"} =>
          \A f \in Files : raw[f] = "good" /\ tmp[f] = "none"
    /\ (pc = "failed" /\ call.failedIn = "fetching") =>
          /\ ~call.chainRan
          /\ run = NoRun

C11_Witness ==
    /\ pc = "failed"
    /\ call.failedIn = "fetching"
    /\ call.err = "IntegrityError"
    /\ call.fetched = {NFiles}

\* The errors a load can fail with.
Taxonomy ==
    {"NotFoundError", "NetworkError", "IntegrityError", "IncompatibleVersionError",
     "SchemaError", "UnknownStepError", "StepConfigError", "ParseError"}

\* A manifest file that ForEachFile matches is published malformed.
MalformedMatch ==
    /\ catalog.processing.declared
    /\ \E i \in DOMAIN catalog.processing.steps, f \in catalog.malformed :
          /\ catalog.processing.steps[i].name = "ForEachFile"
          /\ Matches(catalog.processing.steps[i].pattern, Published(f))

\* C12: an error of the taxonomy ends the load_dataset call it is raised in:
\* the call fails with that error and hands back no structure, or it
\* returns and then hands back the complete sequence (for the identifier,
\* every structure of every manifest file); and when a file that ForEachFile
\* matches does not parse, the chain fails with ParseError and the load
\* never gets past Processing.
C12_ErrorsFatal ==
    /\ call.err # "" => pc = "failed"
    /\ pc = "failed" => call.err \in Taxonomy /\ call.result = <<>>
    /\ run.err # "" => run.status = "raised" /\ run.result = <<>>
    /\ (pc = "done" /\ call.arg = "id") => call.result = FullDataset
    /\ (pc = "done" /\ call.arg = "path") => call.result = ParseFile(0, call.local[1])
    /\ (call.arg = "id" /\ MalformedMatch) =>
          /\ pc \in {"resolving", "checking", "fetching", "downloading",
                      "verifying", "processing", "chain", "failed"}
          /\ (call.chainRan /\ pc = "failed") => call.err = "ParseError"

C12_Witness ==
    /\ call.arg = "id"
    /\ MalformedMatch
    /\ pc = "failed"
    /\ call.err = "ParseError"

\* The files of a directory that match a pattern, in listing order.
Matched(dir, pattern) == SelectSeq(dir, LAMBDA f : Matches(pattern, f))

\* What the steps of a ForEachFile make of one file on its own.
PerFile(step, file) == RunSteps(step.steps, Working(<<file>>))

\* The structures the first n of the files give, all together.
RECURSIVE YieldOfFirst(_, _, _)
YieldOfFirst(step, files, n) ==
    IF n = 0 THEN 0
    ELSE YieldOfFirst(step, files, n - 1) + Len(PerFile(step, files[n]).seq)

\* C13: a ForEachFile step over a directory in which the steps succeed on
\* each of the k matching files, with n1..nk structures, succeeds and
\* leaves n1+...+nk structures: those of the first match in listing order,
\* as the steps make them of that file alone, then those of the second, and
\* so on; a file that does not match the pattern contributes nothing.
C13_ForEachFileConcatenates ==
    \A k \in DOMAIN run.outs :
        LET step == run.chain[k]
            files == Matched(run.ins[k].dir, step.pattern)
            out == run.outs[k]
        IN  (/\ step.name = "ForEachFile"
             /\ step.valid
             /\ \A i \in DOMAIN files : PerFile(step, files[i]).err = "")
            => /\ out.err = ""
               /\ Len(out.seq) = YieldOfFirst(step, files, Len(files))
               /\ \A i \in DOMAIN files :
                    \A j \in 1..Len(PerFile(step, files[i]).seq) :
                        out.seq[YieldOfFirst(step, files, i - 1) + j]
                            = PerFile(step, files[i]).seq[j]

C13_Witness ==
    /\ run.status = "returned"
    /\ run.chain = <<[Step("ForEachFile") EXCEPT !.pattern = Pattern(0, "xyz"),
                                                !.steps = <<Step("ReadASE")>>]>>
    /\ Len(run.given) = NFiles
    /\ run.given[1].stem = NFiles
    /\ run.given[1].ext = "xyz"
    /\ run.given[NFiles].ext = "xyz"
    /\ Len(run.result) = NFiles + 1

\* The pair at position q of the mapping is the last one that moves a field
\* the structure has to its new name.
LastInto(s, mapping, q) ==
    \A r \in DOMAIN mapping :
        (r > q /\ mapping[r][2] = mapping[q][2]) => mapping[r][1] \notin DOMAIN s

\* C14 (as stated): Rename applied to a structure that has old, with a pair
\* old -> new in the mapping, leaves a structure that has new with the value
\* old had and that has old no longer, also when new was there before.
C14_NewHoldsOld ==
    \A k \in DOMAIN run.outs :
        (run.chain[k].name = "Rename" /\ run.chain[k].valid) =>
            \A i \in DOMAIN run.ins[k].seq : \A q \in DOMAIN run.chain[k].mapping :
                LET s == run.ins[k].seq[i]
                    t == run.outs[k].seq[i]
                    old == run.chain[k].mapping[q][1]
                    new == run.chain[k].mapping[q][2]
                IN  old \in DOMAIN s =>
                        /\ old \notin DOMAIN t
                        /\ new \in DOMAIN t
                        /\ t[new] = s[old]

\* C14 (amended): Rename applies the pairs in the order of the mapping. For
\* a structure that has old, with a pair old -> new in the mapping, it
\* leaves a structure that has old no longer and that has new, also when
\* new was there before; new holds the value old had when no later pair of
\* the mapping moves another field the structure has to the same new, and
\* else the value of the last such field. The other fields stay as they
\* are, and so does a structure that has none of the old names.
C14_RenameMoves ==
    \A k \in DOMAIN run.outs :
        (run.chain[k].name = "Rename" /\ run.chain[k].valid) =>
            /\ Len(run.outs[k].seq) = Len(run.ins[k].seq)
            /\ \A i \in DOMAIN run.ins[k].seq :
                LET s == run.ins[k].seq[i]
                    t == run.outs[k].seq[i]
                    mapping == run.chain[k].mapping
                    olds == {mapping[q][1] : q \in DOMAIN mapping}
                    news == {mapping[q][2] : q \in DOMAIN mapping}
                IN  /\ \A q \in DOMAIN mapping :
                          mapping[q][1] \in DOMAIN s =>
                              /\ mapping[q][1] \notin DOMAIN t
                              /\ mapping[q][2] \in DOMAIN t
                              /\ LastInto(s, mapping, q)
                                    => t[mapping[q][2]] = s[mapping[q][1]]
                    /\ \A field \in DOMAIN s \ (olds \cup news) :
                          field \in DOMAIN t /\ t[field] = s[field]
                    /\ (DOMAIN s \cap olds = {}) => t = s

C14_Witness ==
    /\ run.status = "returned"
    /\ Len(run.trace) > 1
    /\ run.chain[Len(run.trace)].name = "Rename"
    /\ \E i \in DOMAIN run.result :
          /\ "energy" \in DOMAIN run.ins[Len(run.trace)].seq[i]
          /\ "dft_energy" \in DOMAIN run.ins[Len(run.trace)].seq[i]
          /\ run.result[i].energy = run.ins[Len(run.trace)].seq[i].dft_energy
    /\ \E i \in DOMAIN run.result :
          /\ "DFT_energy" \in DOMAIN run.ins[Len(run.trace)].seq[i]
          /\ "dft_energy" \in DOMAIN run.ins[Len(run.trace)].seq[i]

\* C15: the chain UnZip, SelectFile(f), ReadASE on an archive that holds f
\* as a structure file returns the structures of f and no other, whatever
\* the other members of the archive are.
C15_SelectedFileOnly ==
    LET f == StructureFile(NFiles, Frames(NFiles))
    IN  (/\ run.declared
         /\ run.chain = <<Step("UnZip"),
                          [Step("SelectFile") EXCEPT !.pattern = Pattern(NFiles, "xyz")],
                          Step("ReadASE")>>
         /\ Len(run.given) = 1
         /\ run.given[1].ext = "zip"
         /\ \E i \in DOMAIN run.given[1].members : run.given[1].members[i] = f)
        => /\ run.status # "raised"
           /\ run.status = "returned" =>
                 /\ run.result = f.frames
                 /\ Len(run.result) = StructsIn(NFiles)

C15_Witness ==
    /\ run.status = "returned"
    /\ run.chain = <<Step("UnZip"),
                     [Step("SelectFile") EXCEPT !.pattern = Pattern(NFiles, "xyz")],
                     Step("ReadASE")>>
    /\ run.given = <<Archive(<<MalformedFile(1), StructureFile(NFiles, Frames(NFiles))>>)>>
    /\ Len(run.result) > 1

\* C16: a DatabaseEntry without a processing key runs the chain ReadASE,
\* and nothing else, on the whole working directory, and its run ends as
\* the run of an entry that declares the chain ReadASE ends on the same
\* directory: with the same structures, or with the same error.
C16_DefaultChain ==
    (~run.declared /\ run.status # "none") =>
        LET explicit == RunSteps(ChainOf(Processing(<<Step("ReadASE")>>)),
                                 Working(run.given))
        IN  /\ run.chain = <<Step("ReadASE")>>
            /\ \A k \in DOMAIN run.ins : run.ins[k].dir = run.given
            /\ run.status = "returned" =>
                  explicit.err = "" /\ run.result = explicit.seq
            /\ run.status = "raised" =>
                  explicit.err # "" /\ run.err = explicit.err

C16_Witness ==
    /\ ~run.declared
    /\ run.status = "returned"
    /\ Len(run.given) = NFiles
    /\ run.given[1].ext = "txt"
    /\ Len(run.result) > 1

\* The steps of a chain that name no step class, and those whose key-word
\* arguments do not fit their class.
Unknown(chain) == {i \in DOMAIN chain : chain[i].name \notin KnownSteps}
Misconfigured(chain) ==
    {i \in DOMAIN chain : chain[i].name \in KnownSteps /\ ~chain[i].valid}

Finished == run.status \in {"returned", "raised"}

C18_StrictOrder ==
    run.status # "none" =>
        /\ run.trace = [k \in 1..Len(run.trace) |-> k]
        /\ Len(run.trace) <= Len(run.chain)
        /\ Len(run.ins) = Len(run.trace) /\ Len(run.outs) = Len(run.trace)
        /\ \A k \in DOMAIN run.ins :
              run.ins[k] = IF k = 1 THEN Working(run.given) ELSE run.outs[k - 1]
        /\ \A k \in DOMAIN run.outs :
              run.outs[k] = ApplyStep(run.chain[k], run.ins[k])
        /\ \A k \in DOMAIN run.outs : k < Len(run.outs) => run.outs[k].err = ""
        /\ run.status = "returned" =>
              /\ Len(run.trace) = Len(run.chain)
              /\ run.result = (IF run.outs = <<>> THEN <<>>
                               ELSE run.outs[Len(run.outs)].seq)
        /\ run.status = "raised" => run.outs[Len(run.outs)].err # ""

C18_Witness ==
    /\ run.status = "returned"
    /\ Len(run.trace) = MaxChain
    /\ run.chain[1].name = "UnZip"
    /\ run.outs[1].dir # run.given
    /\ run.chain[2].name = "ReadASE"
    /\ run.chain[3].name = "Rename"
    /\ run.outs[3].seq # run.outs[2].seq

\* C19: load_dataset with a list of structures held in memory writes
\* nothing under root, performs no network access, and returns the very
\* list, in the same order, whatever root holds at that call.
C19_InMemoryNoIO ==
    [][(call.arg = "mem" \/ call'.arg = "mem") =>
          /\ disk' = disk
          /\ ~call'.netMeta
          /\ ~call'.netFile
          /\ (call'.arg = "mem" =>
                 pc' = "done" /\ call'.err = "" /\ call'.result = call'.local)]_vars

C19_Witness ==
    /\ call.arg = "mem"
    /\ pc = "done"
    /\ marker
    /\ Len(call.result) > 1
    /\ call.result[1].idx > call.result[2].idx

\* C20: a cached dataset is not evicted: while the completion marker is
\* there, no step of a load that was not called with forceRebuild, of this
\* or of another identifier, of a path or of a list, removes the marker or
\* changes the persisted dataset; only the user's deletion of the cache
\* path does.
C20_NeverEvicted ==
    [][(marker /\ ~call.force /\ ~call'.force /\ ~DeleteCache) =>
          /\ marker'
          /\ store' = store
          /\ store' = Serialise(FullDataset)]_vars

C20_Witness ==
    /\ marker
    /\ store = Serialise(FullDataset)
    /\ call.arg = "other"
    /\ pc = "done"
    /\ prev.outcome = "failed"
    /\ prev.startMarker
    /\ VersionMismatch

\* C30: when a load of the identifier has built the dataset, the auxiliary
\* files of the load (temporary downloads, raw files, working files) are gone
\* if the debug flag is 0 and are all still there if it is 1; either way the
\* persisted dataset and the completion marker are there.
C30_DebugFlag ==
    (pc = "done" /\ call.arg = "id" /\ call.chainRan) =>
        /\ marker
        /\ store = Serialise(call.result)
        /\ store.st = "full"
        /\ IF debug = 0
           THEN tmp = NoFiles /\ raw = NoFiles /\ work = "none"
           ELSE raw = [f \in Files |-> "good"] /\ work = "done"

C30_Witness ==
    /\ pc = "done"
    /\ call.arg = "id"
    /\ call.chainRan
    /\ debug = 1
    /\ raw = [f \in Files |-> "good"]
    /\ marker

\* C26: a load of the identifier that finds it cached with a metadata copy
\* asking for a newer package than the running one, forced by the caller or
\* not, gets no further than the version gate, fails there with
\* IncompatibleVersionError, and the persisted dataset and the marker it found
\* are still in place while it runs and after it has returned.
C26_MismatchKeepsPrior ==
    /\ (call.arg = "id" /\ call.startMarker /\ VersionMismatch) =>
          /\ pc \in {"resolving", "checking", "failed"}
          /\ (pc = "failed" =>
                 call.err = "IncompatibleVersionError" /\ call.failedIn = "resolving")
          /\ marker
          /\ store = call.startStore
          /\ store.st = "full"
    /\ (pc = "idle" /\ extSince = "none" /\ prev.startMarker /\ VersionMismatch) =>
          /\ prev.outcome \in {"failed", "killed"}
          /\ marker
          /\ store = prev.startStore
          /\ store.st = "full"

C26_Witness ==
    /\ call.arg = "id"
    /\ call.force
    /\ call.startMarker
    /\ VersionMismatch
    /\ pc = "failed"
    /\ call.err = "IncompatibleVersionError"
    /\ store = Serialise(FullDataset)

\* What the chain of the current release makes of the verified manifest files.
Built ==
    RunSteps(ChainOf(catalog.processing),
             Working(WorkingDir([f \in Files |-> "good"]))).seq

\* C24: a load of the identifier with forceRebuild never reads the cache,
\* whatever it finds under root; when it succeeds it has resolved the entry,
\* fetched and verified every manifest file and run the chain, the marker is
\* there, and the persisted dataset is the one this call built, also when a
\* different one was persisted before.
C24_ForcedRebuild ==
    (call.arg = "id" /\ call.force) =>
        /\ pc # "reading"
        /\ (pc = "done" =>
               /\ call.entry # <<>>
               /\ call.netFile
               /\ call.fetched = Files
               /\ call.chainRan
               /\ call.result = Built
               /\ marker
               /\ store = Serialise(call.result))

C24_Witness ==
    /\ call.arg = "id"
    /\ call.force
    /\ pc = "done"
    /\ call.startMarker
    /\ call.startStore.st = "full"
    /\ store # call.startStore

\* C29: an IntegrityError names a manifest file that arrived corrupt in this
\* load, so the corrupt one when there is exactly one, together with the
\* identifier, the checksum found at that file's path and the checksum the
\* manifest lists for it, which differ; no other error carries such a detail.
C29_NamesTheFile ==
    /\ (pc = "failed" /\ call.err = "IntegrityError") =>
          /\ call.detail # <<>>
          /\ call.detail.identifier = "id"
          /\ call.detail.file \in call.corrupt
          /\ call.detail.file \notin call.fetched
          /\ call.detail.expected = Expected(call.detail.file)
          /\ call.detail.found = Digest(call.detail.file, "bad")
          /\ call.detail.found # call.detail.expected
    /\ (call.err # "IntegrityError" => call.detail = <<>>)

C29_Witness ==
    /\ pc = "failed"
    /\ call.err = "IntegrityError"
    /\ call.corrupt = {NFiles}
    /\ call.fetched = Files \ {NFiles}
    /\ call.fetched # {}
    /\ call.detail.file = NFiles

\* C22: with the manifest files fetched side by side, a step of one file's
\* fetch leaves the paths of every other file as they are and verifies no
\* other file; a verified file stays verified at its manifest path while
\* the fetches go on; and whatever the interleaving, the fetches end as they
\* do one after another: with every file verified at its manifest path and
\* no temporary file left, or failed with no file left at all.
C22_IndependentFetches ==
    [][/\ (pc = "fetching" /\ pc' = "fetching") =>
             \E f \in Files :
                /\ \A g \in Files \ {f} : tmp'[g] = tmp[g] /\ raw'[g] = raw[g]
                /\ call.fetched \subseteq call'.fetched
                /\ call'.fetched \subseteq call.fetched \cup {f}
       /\ (pc' = "fetching") =>
             \A f \in call'.fetched : raw'[f] = "good" /\ tmp'[f] = "none"
       /\ (pc' = "processing") =>
             /\ call'.fetched = Files
             /\ raw' = [f \in Files |-> "good"]
             /\ tmp' = NoFiles
       /\ (pc' = "failed" /\ call'.failedIn = "fetching") =>
             raw' = NoFiles /\ tmp' = NoFiles]_vars

C22_Witness ==
    /\ pc = "fetching"
    /\ call.fetched = {NFiles}
    /\ raw[NFiles] = "good"
    /\ tmp[1] = "partial"

\* C25: a load of the identifier in flight, plain, forced by the caller or
\* sent to Resolving by a version mismatch, comes to its end: the identifier
\* cached with a complete dataset, or the load failed, unless the process is
\* terminated from outside before.
C25_LoadEnds ==
    (call.arg = "id" /\ pc \notin {"done", "failed"})
        ~> \/ pc = "done" /\ marker /\ store.st = "full"
           \/ pc = "failed" /\ call.err \in Taxonomy
           \/ pc = "idle" /\ prev.outcome = "killed"

C25_Witness ==
    /\ call.arg = "id"
    /\ call.force
    /\ prev.outcome = "killed"
    /\ prev.startMarker
    /\ pc = "done"
    /\ marker
    /\ call.chainRan

\* The paths of the dispatch that take an argument.
Routes == {"catalog", "path", "list"}
Takes(route, arg) ==
    CASE route = "catalog" -> TakesCatalog(arg)
      [] route = "path" -> TakesPath(arg)
      [] route = "list" -> TakesList(arg)
RouteOf(c) ==
    CASE c.arg \in {"id", "other"} -> "catalog"
      [] c.arg = "path" -> "path"
      [] c.arg = "mem" -> "list"

StartMismatch == ~call.netMeta /\ VersionMismatch
ReadsCache == call.startMarker /\ ~call.force /\ ~StartMismatch
EntryResolved == IF call.netMeta THEN <<catalogVer>> ELSE meta
EnvironmentFault ==
    CASE call.corrupt # {} -> "IntegrityError"
      [] call.err \in {"NetworkError", "SchemaError"} -> call.err
      [] OTHER -> ""
ChainOutcome ==
    RunSteps(ChainOf(catalog.processing),
             Working(WorkingDir([f \in Files |-> "good"])))

\* The end of that load as these alone decide it.
ExpectedEnd ==
    CASE ReadsCache ->
            [outcome |-> "done", err |-> "", result |-> Deserialise(call.startStore)]
      [] ~ReadsCache /\ EnvironmentFault # "" ->
            [outcome |-> "failed", err |-> EnvironmentFault, result |-> <<>>]
      [] ~ReadsCache /\ EnvironmentFault = "" /\ ~VersionCompatible(EntryResolved) ->
            [outcome |-> "failed", err |-> "IncompatibleVersionError", result |-> <<>>]
      [] OTHER ->
            IF ChainOutcome.err # ""
            THEN [outcome |-> "failed", err |-> ChainOutcome.err, result |-> <<>>]
            ELSE [outcome |-> "done", err |-> "", result |-> ChainOutcome.seq]

\* C21: how a load of the identifier ends (Cached, or which error) and the
\* structures it returns are decided by the cache state it started from,
\* the call's arguments and what catalog and transport answered, in the same
\* way under every verbosity level and either debug flag: two loads that
\* differ only in these settings end alike and return the same sequence.
C21_SettingsDoNotDecide ==
    (call.arg = "id" /\ pc \in {"done", "failed"}) =>
        /\ pc = ExpectedEnd.outcome
        /\ call.err = ExpectedEnd.err
        /\ call.result = ExpectedEnd.result
        /\ (pc = "done" => marker /\ store = Serialise(call.result))
        /\ call.shown = Progress

C21_Witness ==
    /\ call.arg = "id"
    /\ verbose = 0
    /\ debug = 1
    /\ call.startMarker
    /\ raw # NoFiles
    /\ prev.outcome = "done"
    /\ pc = "done"
    /\ ReadsCache

\* C23: the usage notice is printed once, by a load from the catalog that
\* has succeeded and before it returns, unless the verbosity is 0; nothing is
\* printed by a load that failed, by a load of a path or by a wrapped list;
\* the step that prints it, or that skips it when suppressed, changes
\* nothing under root and nothing of what the call returns.
C23_UsageNotice ==
    [][/\ call'.notices = IF call'.usage /\ verbose # 0 THEN 1 ELSE 0
       /\ call'.usage =>
             pc' = "done" /\ call'.arg \in {"id", "other"} /\ call'.err = ""
       /\ (call'.usage /\ ~call.usage) =>
             /\ pc = "done"
             /\ disk' = disk
             /\ call'.result = call.result
             /\ call'.arg = call.arg
       /\ (pc = "done" /\ pc' = "idle" /\ call.arg \in {"id", "other"}) => call.usage
       /\ (pc' \in {"done", "failed"} /\ call'.arg \in {"path", "mem"}) =>
             ~call'.usage /\ call'.notices = 0]_vars

C23_Witness ==
    /\ call.arg = "id"
    /\ pc = "done"
    /\ call.usage
    /\ call.notices = 1
    /\ call.netFile
    /\ verbose = 1

\* A load has come to its end; the two processes' loads of the identifier.
Ended(position) == position \in {"done", "failed"}
Started(position) == position # "idle"

\* C27 (as stated): also with two loads of the uncached identifier running
\* at once, the completion marker is there only over a persisted dataset
\* that is complete, and every interleaving ends with the identifier not
\* cached or cached with the complete dataset.
C27_NeverMarkedIncomplete ==
    /\ marker => store.st = "full" /\ store = Serialise(FullDataset)
    /\ (Ended(pc) /\ Ended(peer.pc)) => (~marker \/ store = Serialise(FullDataset))

\* C27 (amended): with two loads of the identifier running at once and no
\* lock, each load still writes the marker after its own commit and as its
\* last write under root/name; the marker is over the complete dataset as
\* long as only one of the two processes has started a load.
C27_MarkerAfterOwnCommit ==
    [][/\ (marker' /\ ~marker) => (pc = "committed" /\ pc' = "marked")
       /\ (marker' /\ ~(Started(pc') /\ Started(peer'.pc))) =>
             store' = Serialise(FullDataset)]_vars

C27_Witness ==
    /\ Started(pc)
    /\ Started(peer.pc)
    /\ ~call.startMarker
    /\ ~peer.call.startMarker
    /\ call.netFile
    /\ peer.call.netFile
    /\ marker
    /\ store.st = "partial"

\* C31: Rename(mapping) gives as many structures as it was given, each made
\* of the structure at the same place; a structure that has none of the old
\* keys of the mapping is given back as it was; and in every structure a
\* field that is neither an old key nor a new key of the mapping is there
\* after the step exactly when it was there before, with the same value.
C31_RenameFrame ==
    ren.applied >= 1 =>
        /\ Len(ren.once) = Len(ren.seq)
        /\ \A i \in DOMAIN ren.seq :
              /\ \A k \in DOMAIN ren.once[i] : ren.once[i][k][1] = i
              /\ (DOMAIN ren.seq[i] \cap OldKeys(ren.mapping) = {}) =>
                    ren.once[i] = ren.seq[i]
              /\ \A k \in FieldNames \ (OldKeys(ren.mapping) \cup NewKeys(ren.mapping)) :
                    /\ (k \in DOMAIN ren.once[i]) = (k \in DOMAIN ren.seq[i])
                    /\ k \in DOMAIN ren.seq[i] => ren.once[i][k] = ren.seq[i][k]

\* Two structures went through a mapping of two pairs: one has none of the
\* old keys, the other has an old key moved and a field beside it that the
\* mapping does not name.
C31_Witness ==
    /\ ren.applied >= 1
    /\ Len(ren.mapping) = 2
    /\ Len(ren.seq) = 2
    /\ DOMAIN ren.seq[1] \cap OldKeys(ren.mapping) = {}
    /\ ren.once[1] = ren.seq[1]
    /\ ren.once[2] # ren.seq[2]
    /\ \E k \in DOMAIN ren.seq[2] \ (OldKeys(ren.mapping) \cup NewKeys(ren.mapping)) :
          ren.once[2][k] = ren.seq[2][k]

\* C32: when no new key of the mapping is also an old key of it, Rename
\* applied to what Rename gave changes nothing, for every sequence, also
\* when two old keys are mapped to the same new key.
C32_RenameIdempotent ==
    (ren.applied = 2 /\ NewKeys(ren.mapping) \cap OldKeys(ren.mapping) = {}) =>
        ren.twice = ren.once

\* Two old keys mapped to one new key, a structure that has both and the
\* new key as well, and the step applied twice.
C32_Witness ==
    /\ ren.applied = 2
    /\ NewKeys(ren.mapping) \cap OldKeys(ren.mapping) = {}
    /\ Len(ren.mapping) = 2
    /\ Cardinality(NewKeys(ren.mapping)) = 1
    /\ \E i \in DOMAIN ren.seq :
          /\ OldKeys(ren.mapping) \cup NewKeys(ren.mapping) \subseteq DOMAIN ren.seq[i]
          /\ ren.once[i] # ren.seq[i]
    /\ ren.twice = ren.once

\* What the claims about the rotation script speak of: the copy of the
\* script that came with scene e, and the event that came last.
Rotating(pg, e) == pg.scripts[e].currentlyRotating
Angle(pg, e) == pg.scenes[e].rotation[4]
Held(pg, e) == pg.scenes[e].held
Came(pg, kind, e) == pg.event = [kind |-> kind, scene |-> e]

\* C33: a mouseup on a scene that follows a mousedown on it leaves
\* currentlyRotating the negation of what it was before the mousedown when
\* less than 200 ms lie between the two, and what it was before the
\* mousedown otherwise.
C33_ClickToggles ==
    [][\A e \in Visualisations :
          (Came(page', "mouseup", e) /\ Held(page, e).down) =>
              Rotating(page', e) =
                  IF page.now - Held(page, e).at < ClickLimit
                  THEN ~Held(page, e).rotating
                  ELSE Held(page, e).rotating]_vars

\* A press of 200 ms or more on scene 1, which was rotating, has just ended
\* and scene 1 rotates again; a click on scene 2 less than 200 ms ago
\* toggled it.
C33_Witness ==
    /\ Came(page, "mouseup", 1)
    /\ ~Held(page, 1).down
    /\ Len(page.scenes[1].mouseup) >= 1
    /\ page.now - Held(page, 1).at >= ClickLimit
    /\ Held(page, 1).rotating
    /\ Rotating(page, 1)
    /\ ~Held(page, 2).down
    /\ Len(page.scenes[2].mouseup) >= 1
    /\ page.now - Held(page, 2).at < ClickLimit
    /\ page.now > Held(page, 2).at
    /\ Rotating(page, 2) = ~Held(page, 2).rotating

\* C34: while a mousedown on a scene has not been followed by a mouseup on
\* it, currentlyRotating is false, and an animation frame leaves the
\* rotation attribute of the scene as it was.
C34_PausedWhileHeld ==
    [][\A e \in Visualisations :
          /\ Held(page', e).down => ~Rotating(page', e)
          /\ (Held(page, e).down /\ page'.event.kind = "frame") =>
                page'.scenes[e].rotation = page.scenes[e].rotation]_vars

\* Scene 1 was rotating when it was pressed, is still held, and a frame has
\* been drawn at a later instant than the mousedown.
C34_Witness ==
    /\ page.event.kind = "frame"
    /\ Held(page, 1).down
    /\ Held(page, 1).rotating
    /\ page.scripts[1].previousTimeStamp > Held(page, 1).at
    /\ ~Rotating(page, 1)

\* C35: every copy of the script has exactly one callback requested for the
\* next animation frame, in every state: each call of animationStep, paused
\* or rotating, has requested one, whatever mouse events came in between.
C35_OneFrameRequested ==
    \A i \in Visualisations :
        Cardinality({k \in DOMAIN page.frames : page.frames[k] = i}) = 1

\* A frame has just been drawn, after mouse events on both scenes, with
\* one copy paused and the other rotating.
C35_Witness ==
    /\ page.event.kind = "frame"
    /\ page.now > 0
    /\ \A i \in Visualisations :
          /\ page.scripts[i].previousTimeStamp = page.now
          /\ page.scenes[i].mouseup # <<>>
    /\ ~Rotating(page, 1)
    /\ Rotating(page, 2)
    /\ Angle(page, 2) > 0

\* C36: each copy of the script works on the scene it came with; a mouse
\* event on a scene changes neither the variables of the copy of another
\* scene nor that scene; and a frame turns each scene by what its own copy
\* adds, or not at all when its own copy is paused.
C36_NoConflict ==
    [][\A e \in Visualisations :
          /\ page'.scripts[e].x3dScene = e
          /\ \A d \in Visualisations \ {e} :
                page'.event.scene = e =>
                    /\ page'.scripts[d] = page.scripts[d]
                    /\ page'.scenes[d] = page.scenes[d]
          /\ page'.event.kind = "frame" =>
                Angle(page', e) =
                    Angle(page, e)
                    + (IF Rotating(page, e)
                       THEN rotationSpeed * (page.now - page.scripts[e].previousTimeStamp)
                       ELSE 0)]_vars

\* A click has just set scene 1 rotating while scene 2, pressed at another
\* instant, is held and paused; the two scenes have been turned by
\* different angles.
C36_Witness ==
    /\ Came(page, "mouseup", 1)
    /\ Rotating(page, 1)
    /\ ~Held(page, 1).rotating
    /\ Held(page, 2).down
    /\ ~Rotating(page, 2)
    /\ Held(page, 1).at # Held(page, 2).at
    /\ Angle(page, 1) # Angle(page, 2)
    /\ Angle(page, 2) > 0

\* C37: currentlyRotating of a scene changes only in a mousedown on the
\* scene or in the mouseup on it that follows a mousedown on it; a mouseup
\* on the scene with no mousedown on it since the mouseup before leaves
\* currentlyRotating as it was.
C37_OnlyPressAndRelease ==
    [][\A e \in Visualisations :
          Rotating(page', e) # Rotating(page, e) =>
              \/ Came(page', "mousedown", e)
              \/ Came(page', "mouseup", e) /\ Held(page, e).down]_vars
====
